---- MODULE Spec2Model ----
(***************************************************************************)
(* State-machine model of the AI request-orchestration layer:              *)
(*   - ModelConfigurationService (aiService.ts): the model configuration   *)
(*     registry, with every await point of its async methods a step;       *)
(*   - AIServiceManager (contextProvider.ts): switchModel, executeWithRetry *)
(*     and sendChatMessageStream;                                           *)
(*   - DefaultErrorHandler / AIError (aiErrors.ts);                         *)
(*   - LocalModelService (localModelService.ts): the streaming adapter.     *)
(* JavaScript runs a handler synchronously up to its next await; each      *)
(* action below is one such synchronous stretch.                           *)
(***************************************************************************)
EXTENDS Integers, Sequences, FiniteSets, TLC

VARIABLES
    configurations,       \* ModelConfigurationService.configurations (a Map: insertion ordered)
    defaultModelId,       \* ModelConfigurationService.defaultModelId
    storedConfigurations, \* storage entry 'ai.modelConfigurations'
    storedDefaultModel,   \* storage entry 'ai.defaultModel'
    secrets,              \* secret store: the suffixes s with an entry 'ai.apiKey.' + s
    tasks,                \* the registry calls in flight, each suspended at an await
    out,                  \* what the last step emitted: events fired, promises settled
    providers,            \* AIServiceManager.providers (keys: provider ids)
    activeModelId,        \* AIServiceManager.activeModelId
    requests,             \* number of provider requests sent by the manager
    calls,                \* number of registry calls made so far
    retry,                \* executeWithRetry: where it stands, attempt, maxRetries
    token,                \* the call's CancellationToken: isCancellationRequested
    lastError,            \* executeWithRetry's lastError
    errs,                 \* the classified error of every failed attempt so far
    sleeps,               \* the delays (ms) executeWithRetry has slept so far
    thrown,               \* what the call rejected with
    cancelledAt,          \* where the call stood when the token was signalled
    stream,               \* sendChatMessageStream: where it stands, what it delivered
    local,                \* LocalModelService.sendRequest: the call and how it settled
    chat,                 \* a request operation of AIServiceManager: the call and its events
    monitor,              \* LocalModelRegistry and its LocalModelHealthMonitor
    discovery,            \* LocalModelDiscoveryService and the start-up contribution
    conv,                 \* AIService.conversationMemory and the flow in progress
    batch,                \* AIService.executeBatchWorkflow: the call and its items
    vstore,               \* MemoryVectorStore: documents, the hybridSearch in progress
    react,                \* AIServiceManager.reactAgent: the loop of one call
    stores,               \* VectorDatabaseService stores and the category lookups in flight
    advanced,             \* AdvancedAIServiceManager: the active provider and the call in progress
    importing             \* ModelConfigurationService.importConfigurations: the call in progress

registryVars == <<configurations, defaultModelId, storedConfigurations, storedDefaultModel, secrets>>
managerVars == <<providers, activeModelId, requests>>
retryVars == <<retry, token, lastError, errs, sleeps, thrown, cancelledAt>>
streamVars == <<stream>>
restVars == <<batch, vstore, react, stores, advanced, importing>>
auxVars == <<local, chat, monitor, discovery, conv, restVars>>
vars == <<configurations, defaultModelId, storedConfigurations, storedDefaultModel, secrets,
          tasks, out, providers, activeModelId, requests, calls,
          retry, token, lastError, errs, sleeps, thrown, cancelledAt, stream, local, chat, monitor, discovery,
          conv, batch, vstore, react, stores, advanced, importing>>

(***************************************************************************)
(* Bounds and input domains                                                *)
(***************************************************************************)
NumModels == 3        \* distinct configuration ids the callers use
MaxTasks == 2         \* registry calls that may be in flight at once
MaxCalls == 4         \* registry calls made in one behaviour

IdPool == <<"m1", "m2", "m3", "m4", "m5", "m6">>
ModelIds == {IdPool[i] : i \in 1..NumModels}
Tasks == 1..MaxTasks

Undefined == "undefined"          \* JavaScript undefined
EmptyString == ""                 \* a falsy string
RawKey == "sk-raw"                \* a plaintext API key
KeyRef == "ref1"                  \* a key id returned by encryptApiKey
Truthy(s) == s # Undefined /\ s # EmptyString

\* The provider tag a caller gives the configuration with this id.
ProviderOf(id) == IF id \in {"m1", "m3", "m5"} THEN "ollama" ELSE "openai"
ProviderIds == {"ollama", "openai"}
\* The API keys a caller may pass for it: a local server takes none.
ApiKeysOf(id) == IF ProviderOf(id) = "openai" THEN {Undefined, RawKey, KeyRef} ELSE {Undefined}

Config(id, isDefault, apiKey) ==
    [id |-> id, provider |-> ProviderOf(id), isDefault |-> isDefault, apiKey |-> apiKey]

(***************************************************************************)
(* The configurations Map                                                  *)
(***************************************************************************)
MapHas(cfgs, id) == \E i \in 1..Len(cfgs) : cfgs[i].id = id
MapGet(cfgs, id) == cfgs[CHOOSE i \in 1..Len(cfgs) : cfgs[i].id = id]
\* Map.set: an existing key keeps its place, a new key goes last.
MapSet(cfgs, c) ==
    IF MapHas(cfgs, c.id)
    THEN [i \in 1..Len(cfgs) |-> IF cfgs[i].id = c.id THEN c ELSE cfgs[i]]
    ELSE Append(cfgs, c)
MapDelete(cfgs, id) == SelectSeq(cfgs, LAMBDA c : c.id # id)

getConfiguration(cfgs, modelId) == IF MapHas(cfgs, modelId) THEN MapGet(cfgs, modelId) ELSE Undefined
getDefaultModel(cfgs, dflt) == IF Truthy(dflt) THEN getConfiguration(cfgs, dflt) ELSE Undefined

(***************************************************************************)
(* Outputs of a step                                                       *)
(***************************************************************************)
Event(name, id) == [kind |-> "event", name |-> name, id |-> id, code |-> ""]
Resolve(op, id) == [kind |-> "resolve", name |-> op, id |-> id, code |-> ""]
Reject(op, id, code) == [kind |-> "reject", name |-> op, id |-> id, code |-> code]

(***************************************************************************)
(* validateConfiguration / testModelConnection                             *)
(***************************************************************************)
Fields == {"ok", "missing", "badurl"}

\* decryptApiKey looks the key text up as a secret-store suffix and throws when
\* there is no such entry; testModelConnection turns every throw, an unsupported
\* provider and a non-2xx reply into success = false.
testModelConnection(apiKey, sec, probeOk) ==
    (Truthy(apiKey) => apiKey \in sec) /\ probeOk

validateConfiguration(fields, apiKey, sec, probeOk) ==
    IF fields = "missing" THEN FALSE
    ELSE IF fields = "badurl" THEN FALSE
    ELSE testModelConnection(apiKey, sec, probeOk)

(***************************************************************************)
(* Registry calls in flight                                                *)
(***************************************************************************)
Idle == [op |-> "idle", pc |-> "idle", cfg |-> Config("m1", FALSE, Undefined),
         key |-> Undefined, ok |-> TRUE, alias |-> FALSE]

\* A new call starts in a free slot (the lowest one: the slots are interchangeable).
Free(t) ==
    /\ tasks[t] = Idle
    /\ \A u \in Tasks : u < t => tasks[u] # Idle
    /\ calls < MaxCalls

Task(op, pc, cfg, key, ok, alias) ==
    [op |-> op, pc |-> pc, cfg |-> cfg, key |-> key, ok |-> ok, alias |-> alias]

\* A call awaiting validateConfiguration. Once the validation has failed nothing
\* but the id of its configuration is read again.
Validating(op, cfg, key, ok) ==
    IF ok THEN Task(op, "validating", cfg, key, TRUE, FALSE)
    ELSE Task(op, "validating", Config(cfg.id, FALSE, Undefined), Undefined, FALSE, FALSE)

\* The tasks other than t, after the Map entry of `id` was replaced or deleted:
\* a local `config` of theirs no longer is the object the Map holds.
Unalias(t, id) ==
    [u \in Tasks |-> IF u # t /\ tasks[u].alias /\ tasks[u].cfg.id = id
                     THEN [tasks[u] EXCEPT !.alias = FALSE] ELSE tasks[u]]

\* saveConfigurations: storageService.store is synchronous.
saveConfigurations(cfgs) == cfgs


(***************************************************************************)
(* setDefaultModel                                                         *)
(***************************************************************************)
\* for (const [id, cfg] of this.configurations) cfg.isDefault = id === modelId
SetDefaultFlags(cfgs, modelId) ==
    [i \in 1..Len(cfgs) |-> [cfgs[i] EXCEPT !.isDefault = (cfgs[i].id = modelId)]]

\* setDefaultModel(modelId) up to its await, run by task t on behalf of `op`
\* after that step emitted `emitted`. The loop writes the objects the Map holds,
\* so a local `config` of another call that is such an object changes with them.
SetDefaultStart(t, op, modelId, emitted) ==
    IF ~MapHas(configurations, modelId)
    THEN /\ out' = emitted \o <<Reject(op, modelId, "MODEL_NOT_FOUND")>>
         /\ tasks' = [tasks EXCEPT ![t] = Idle]
         /\ UNCHANGED registryVars
    ELSE /\ configurations' = SetDefaultFlags(configurations, modelId)
         /\ defaultModelId' = modelId
         /\ storedDefaultModel' = modelId
         /\ storedConfigurations' = saveConfigurations(configurations')
         /\ tasks' = [u \in Tasks |->
                IF u = t
                THEN Task(op, "defaultSaved", Config(modelId, TRUE, Undefined), Undefined, TRUE, FALSE)
                ELSE IF tasks[u].alias
                     THEN [tasks[u] EXCEPT !.cfg.isDefault = (tasks[u].cfg.id = modelId)]
                     ELSE tasks[u]]
         /\ out' = emitted
         /\ UNCHANGED secrets

\* AIServiceManager.switchModel: the error it throws, "" when it succeeds.
switchModelError(cfgs, provs, modelId) ==
    IF ~MapHas(cfgs, modelId) THEN "MODEL_NOT_FOUND"
    ELSE IF MapGet(cfgs, modelId).provider \notin provs THEN "SERVICE_UNAVAILABLE"
    ELSE ""

setDefaultModel(t) ==
    /\ Free(t)
    /\ calls' = calls + 1
    /\ \E modelId \in ModelIds : SetDefaultStart(t, "setDefaultModel", modelId, <<>>)
    /\ UNCHANGED managerVars

\* After the await of saveConfigurations: fire onDidChangeDefaultModel, whose
\* listener (AIServiceManager's constructor) calls switchModel(modelId).
setDefaultModel_saved(t) ==
    /\ UNCHANGED calls
    /\ tasks[t].pc = "defaultSaved"
    /\ LET modelId == tasks[t].cfg.id
           err == switchModelError(configurations, providers, modelId)
       IN /\ out' = <<Event("onDidChangeDefaultModel", modelId)>>
                    \o (IF err = "" THEN <<Event("onDidChangeActiveModel", modelId)>> ELSE <<>>)
                    \o <<Resolve(tasks[t].op, modelId)>>
          /\ activeModelId' = IF err = "" THEN modelId ELSE activeModelId
    /\ tasks' = [tasks EXCEPT ![t] = Idle]
    /\ UNCHANGED <<registryVars, providers, requests>>

(***************************************************************************)
(* addConfiguration                                                        *)
(***************************************************************************)
\* The call: validateConfiguration runs up to its first await; the required
\* fields, the URL and the secret lookup are read now, the probe answers later.
addConfiguration(t) ==
    /\ Free(t)
    /\ calls' = calls + 1
    /\ \E id \in ModelIds, isDefault \in BOOLEAN, fields \in Fields, probeOk \in BOOLEAN :
        \E apiKey \in ApiKeysOf(id) :
          tasks' = [tasks EXCEPT ![t] =
              Validating("addConfiguration", Config(id, isDefault, apiKey), Undefined,
                         validateConfiguration(fields, apiKey, secrets, probeOk))]
    /\ out' = <<>>
    /\ UNCHANGED <<registryVars, managerVars>>

\* this.configurations.set(config.id, config); await this.saveConfigurations()
AddStore(t, cfg) ==
    /\ configurations' = MapSet(configurations, cfg)
    /\ storedConfigurations' = saveConfigurations(configurations')
    /\ tasks' = [Unalias(t, cfg.id) EXCEPT ![t] =
                    Task("addConfiguration", "saved", cfg, Undefined, TRUE, TRUE)]
    /\ out' = <<>>
    /\ UNCHANGED <<defaultModelId, storedDefaultModel>>

\* Mutant of RejectInvalid: the configuration was stored before the result of
\* the validation is looked at.
RejectInvalid_afterStore(t) ==
    /\ out' = <<Reject(tasks[t].op, tasks[t].cfg.id, "CONFIGURATION_ERROR")>>
    /\ tasks' = [tasks EXCEPT ![t] = Idle]
    /\ configurations' = MapSet(configurations, tasks[t].cfg)
    /\ UNCHANGED <<defaultModelId, storedConfigurations, storedDefaultModel, secrets>>

\* A failed validation: throw new AIError(CONFIGURATION_ERROR, ...)
RejectInvalid(t) ==
    /\ out' = <<Reject(tasks[t].op, tasks[t].cfg.id, "CONFIGURATION_ERROR")>>
    /\ tasks' = [tasks EXCEPT ![t] = Idle]
    /\ UNCHANGED registryVars

\* Mutant of addConfiguration_validated: the key is stored in the secret store
\* and left in the configuration.
addConfiguration_validated_keepKey(t) ==
    /\ UNCHANGED calls
    /\ tasks[t].op = "addConfiguration" /\ tasks[t].pc = "validating"
    /\ IF ~tasks[t].ok
       THEN RejectInvalid(t)
       ELSE IF Truthy(tasks[t].cfg.apiKey)
            THEN /\ secrets' = secrets \cup {tasks[t].cfg.id}
                 /\ tasks' = [tasks EXCEPT ![t].pc = "keyStored"]
                 /\ out' = <<>>
                 /\ UNCHANGED <<configurations, defaultModelId, storedConfigurations, storedDefaultModel>>
            ELSE AddStore(t, tasks[t].cfg) /\ UNCHANGED secrets
    /\ UNCHANGED managerVars

addConfiguration_validated(t) ==
    /\ UNCHANGED calls
    /\ tasks[t].op = "addConfiguration" /\ tasks[t].pc = "validating"
    /\ IF ~tasks[t].ok
       THEN RejectInvalid(t)
       ELSE IF Truthy(tasks[t].cfg.apiKey)
            THEN \* await this.encryptAndStoreApiKey(config.id, config.apiKey)
                 /\ secrets' = secrets \cup {tasks[t].cfg.id}
                 /\ tasks' = [tasks EXCEPT ![t].pc = "keyStored", ![t].cfg.apiKey = Undefined]
                 /\ out' = <<>>
                 /\ UNCHANGED <<configurations, defaultModelId, storedConfigurations, storedDefaultModel>>
            ELSE AddStore(t, tasks[t].cfg) /\ UNCHANGED secrets
    /\ UNCHANGED managerVars

addConfiguration_keyStored(t) ==
    /\ UNCHANGED calls
    /\ tasks[t].op = "addConfiguration" /\ tasks[t].pc = "keyStored"
    /\ AddStore(t, tasks[t].cfg)
    /\ UNCHANGED <<secrets, managerVars>>

\* After the save: fire onDidAddModel, then
\* if (config.isDefault || this.configurations.size === 1) setDefaultModel(config.id)
addConfiguration_saved(t) ==
    /\ UNCHANGED calls
    /\ tasks[t].op = "addConfiguration" /\ tasks[t].pc = "saved"
    /\ LET cfg == tasks[t].cfg
           emitted == <<Event("onDidAddModel", cfg.id)>>
       IN IF cfg.isDefault \/ Len(configurations) = 1
          THEN SetDefaultStart(t, "addConfiguration", cfg.id, emitted)
          ELSE /\ out' = emitted \o <<Resolve("addConfiguration", cfg.id)>>
               /\ tasks' = [tasks EXCEPT ![t] = Idle]
               /\ UNCHANGED registryVars
    /\ UNCHANGED managerVars

(***************************************************************************)
(* updateConfiguration                                                     *)
(***************************************************************************)
\* { ...existing, ...updates }: a field the partial leaves out keeps its value.
Merge(existing, isDefault, apiKey) ==
    [existing EXCEPT !.isDefault = IF isDefault = "absent" THEN existing.isDefault
                                   ELSE (isDefault = "true"),
                     !.apiKey = IF apiKey = "absent" THEN existing.apiKey ELSE apiKey]

updateConfiguration(t) ==
    /\ Free(t)
    /\ calls' = calls + 1
    /\ \E modelId \in ModelIds, isDefault \in {"absent", "true", "false"},
          fields \in Fields, probeOk \in BOOLEAN :
        \E apiKey \in {"absent"} \cup (ApiKeysOf(modelId) \ {Undefined})
                       \cup (IF ProviderOf(modelId) = "openai" THEN {EmptyString} ELSE {}) :
          IF ~MapHas(configurations, modelId)
          THEN /\ out' = <<Reject("updateConfiguration", modelId, "MODEL_NOT_FOUND")>>
               /\ UNCHANGED tasks
          ELSE LET updated == Merge(MapGet(configurations, modelId), isDefault, apiKey)
               IN /\ tasks' = [tasks EXCEPT ![t] =
                        Validating("updateConfiguration", updated, apiKey,
                                   validateConfiguration(fields, updated.apiKey, secrets, probeOk))]
                  /\ out' = <<>>
    /\ UNCHANGED <<registryVars, managerVars>>

\* this.configurations.set(modelId, updated); await this.saveConfigurations()
UpdateStore(t, updated) ==
    /\ configurations' = MapSet(configurations, updated)
    /\ storedConfigurations' = saveConfigurations(configurations')
    /\ tasks' = [Unalias(t, updated.id) EXCEPT ![t] =
                    Task("updateConfiguration", "saved", updated, Undefined, TRUE, FALSE)]
    /\ out' = <<>>
    /\ UNCHANGED <<defaultModelId, storedDefaultModel>>

updateConfiguration_validated(t) ==
    /\ UNCHANGED calls
    /\ tasks[t].op = "updateConfiguration" /\ tasks[t].pc = "validating"
    /\ IF ~tasks[t].ok
       THEN RejectInvalid(t)
       ELSE IF tasks[t].key # "absent"
            THEN \* encryptAndStoreApiKey or removeApiKey, then updated.apiKey = undefined
                 /\ secrets' = IF Truthy(tasks[t].key) THEN secrets \cup {tasks[t].cfg.id}
                               ELSE secrets \ {tasks[t].cfg.id}
                 /\ tasks' = [tasks EXCEPT ![t].pc = "keyStored", ![t].cfg.apiKey = Undefined,
                                           ![t].key = Undefined]
                 /\ out' = <<>>
                 /\ UNCHANGED <<configurations, defaultModelId, storedConfigurations, storedDefaultModel>>
            ELSE UpdateStore(t, tasks[t].cfg) /\ UNCHANGED secrets
    /\ UNCHANGED managerVars

updateConfiguration_keyStored(t) ==
    /\ UNCHANGED calls
    /\ tasks[t].op = "updateConfiguration" /\ tasks[t].pc = "keyStored"
    /\ UpdateStore(t, tasks[t].cfg)
    /\ UNCHANGED <<secrets, managerVars>>

updateConfiguration_saved(t) ==
    /\ UNCHANGED calls
    /\ tasks[t].op = "updateConfiguration" /\ tasks[t].pc = "saved"
    /\ out' = <<Event("onDidChangeConfiguration", tasks[t].cfg.id),
                Resolve("updateConfiguration", tasks[t].cfg.id)>>
    /\ tasks' = [tasks EXCEPT ![t] = Idle]
    /\ UNCHANGED <<registryVars, managerVars>>

(***************************************************************************)
(* removeConfiguration                                                     *)
(***************************************************************************)
removeConfiguration(t) ==
    /\ Free(t)
    /\ calls' = calls + 1
    /\ \E modelId \in ModelIds :
          IF ~MapHas(configurations, modelId)
          THEN /\ out' = <<Resolve("removeConfiguration", modelId)>>
               /\ UNCHANGED <<tasks, secrets>>
          ELSE \* await this.removeApiKey(modelId)
               /\ secrets' = secrets \ {modelId}
               /\ tasks' = [tasks EXCEPT ![t] =
                      Task("removeConfiguration", "keyRemoved", Config(modelId, FALSE, Undefined),
                           Undefined, TRUE, FALSE)]
               /\ out' = <<>>
    /\ UNCHANGED <<configurations, defaultModelId, storedConfigurations, storedDefaultModel, managerVars>>

\* this.configurations.delete(modelId); await this.saveConfigurations()
removeConfiguration_keyRemoved(t) ==
    /\ UNCHANGED calls
    /\ tasks[t].op = "removeConfiguration" /\ tasks[t].pc = "keyRemoved"
    /\ configurations' = MapDelete(configurations, tasks[t].cfg.id)
    /\ storedConfigurations' = saveConfigurations(configurations')
    /\ tasks' = [Unalias(t, tasks[t].cfg.id) EXCEPT ![t].pc = "saved"]
    /\ out' = <<>>
    /\ UNCHANGED <<defaultModelId, storedDefaultModel, secrets, managerVars>>

\* Mutant of FirstRemaining: the last remaining configuration is promoted.
LastRemaining(remaining) == remaining[Len(remaining)].id

\* remaining[0].id
FirstRemaining(remaining) == remaining[1].id

\* After the save: fire onDidRemoveModel, then the default is promoted or cleared.
removeConfiguration_saved(t) ==
    /\ UNCHANGED calls
    /\ tasks[t].op = "removeConfiguration" /\ tasks[t].pc = "saved"
    /\ LET modelId == tasks[t].cfg.id
           emitted == <<Event("onDidRemoveModel", modelId)>>
           remaining == configurations
       IN IF defaultModelId = modelId
          THEN IF Len(remaining) > 0
               THEN SetDefaultStart(t, "removeConfiguration", FirstRemaining(remaining), emitted)
               ELSE /\ defaultModelId' = Undefined
                    /\ storedDefaultModel' = Undefined
                    /\ out' = emitted \o <<Resolve("removeConfiguration", modelId)>>
                    /\ tasks' = [tasks EXCEPT ![t] = Idle]
                    /\ UNCHANGED <<configurations, storedConfigurations, secrets>>
          ELSE /\ out' = emitted \o <<Resolve("removeConfiguration", modelId)>>
               /\ tasks' = [tasks EXCEPT ![t] = Idle]
               /\ UNCHANGED registryVars
    /\ UNCHANGED managerVars

(***************************************************************************)
(* encryptApiKey: stores the key under a fresh key id and returns the id   *)
(***************************************************************************)
encryptApiKey ==
    /\ UNCHANGED calls
    /\ KeyRef \notin secrets
    /\ secrets' = secrets \cup {KeyRef}
    /\ out' = <<Resolve("encryptApiKey", KeyRef)>>
    /\ UNCHANGED <<configurations, defaultModelId, storedConfigurations, storedDefaultModel,
                   tasks, managerVars>>

(***************************************************************************)
(* The registry: construction on empty storage, then any interleaving      *)
(***************************************************************************)
NoError == [isAIError |-> FALSE, code |-> "", retryable |-> FALSE, retryAfter |-> <<>>]

\* No executeWithRetry call has been made.
RetryReady ==
    /\ retry = [pc |-> "ready", attempt |-> 0, maxRetries |-> 0]
    /\ token = FALSE
    /\ lastError = NoError
    /\ errs = <<>>
    /\ sleeps = <<>>
    /\ thrown = NoError
    /\ cancelledAt = [pc |-> "", requests |-> 0]

\* No LocalModelService.sendRequest call has been made.
LocalIdle ==
    local = [pc |-> "idle", provider |-> "", status |-> 0,
             body |-> [json |-> FALSE, message |-> "absent", response |-> "absent",
                       choices |-> "absent", content |-> "absent"],
             content |-> "", error |-> NoError]

\* No request operation of the manager has been called.
ChatIdle == chat = [op |-> "", pc |-> "idle", events |-> <<>>, error |-> NoError]

\* The local models a LocalModelRegistry is asked to register.
NumLocalModels == 2
LocalIds == {IdPool[2 * i - 1] : i \in 1..NumLocalModels}

\* A LocalModelRegistry just constructed over an empty configuration.
MonitorIdle ==
    monitor = [models |-> {}, instances |-> [id \in LocalIds |-> "none"],
               monitored |-> <<>>, timer |-> FALSE, passes |-> <<>>,
               registering |-> {}, checking |-> {}, trace |-> <<>>,
               healthStatus |-> [id \in LocalIds |-> "none"], notice |-> <<>>]

\* No discovery service has been created.
DiscoveryIdle ==
    discovery = [known |-> {}, active |-> FALSE, timer |-> FALSE, runs |-> <<>>,
                 suggestions |-> {}, adding |-> <<>>, results |-> <<>>]

\* conversationMemory is empty and no conversation flow is in progress.
ConvIdle ==
    conv = [heap |-> <<>>, stored |-> 0, calls |-> <<>>, sent |-> 0, done |-> <<>>, last |-> <<>>]

\* No executeBatchWorkflow call has been made.
BatchIdle == batch = [pc |-> "idle", batchSize |-> 0, i |-> 0, status |-> <<>>]

\* The vector store is empty and has served no search.
VectorIdle ==
    vstore = [documents |-> <<>>, nextId |-> 1, call |-> <<>>, last |-> <<>>, cos |-> <<>>]

\* No reactAgent call has been made.
ReactIdle ==
    react = [pc |-> "idle", iteration |-> 0, rounds |-> 0, finalRound |-> 0, cancelled |-> FALSE,
             shouldContinue |-> TRUE, observations |-> <<>>, failures |-> 0, cause |-> ""]

NumCategories == 2
Categories == 1..NumCategories

\* The vector database holds no store and no lookup has been made.
StoresIdle ==
    stores = [list |-> <<>>, nextId |-> 1, lookups |-> <<>>,
              assigned |-> [c \in Categories |-> 0], last |-> <<>>]

\* The advanced service is constructed, not initialized, and has served no call.
AdvancedIdle ==
    advanced = [provider |-> "none", op |-> "", stages |-> <<>>, pc |-> 0, segments |-> 0,
                enabled |-> {}, ran |-> {}, carried |-> {}, outcome |-> "", cause |-> ""]

\* No importConfigurations call is in progress.
ImportIdle ==
    importing = [pc |-> "idle", slot |-> 0, queue |-> <<>>, defaultModel |-> Undefined,
                 before |-> <<>>]

RestIdle == BatchIdle /\ VectorIdle /\ ReactIdle /\ StoresIdle /\ AdvancedIdle /\ ImportIdle

\* The components the specification at hand does not exercise are at rest.
AuxIdle == LocalIdle /\ ChatIdle /\ MonitorIdle /\ DiscoveryIdle /\ ConvIdle /\ RestIdle

\* No sendChatMessageStream call has been made.
StreamIdle ==
    stream = [pc |-> "idle", frames |-> 0, lines |-> 0, buf |-> <<>>, chunk |-> 0,
              delivered |-> <<>>, cancelledPc |-> "", deliveredAtCancel |-> <<>>,
              doneLine |-> -1]

InitRegistry ==
    /\ configurations = <<>>
    /\ defaultModelId = Undefined
    /\ storedConfigurations = <<>>
    /\ storedDefaultModel = Undefined
    /\ secrets = {}
    /\ tasks = [t \in Tasks |-> Idle]
    /\ out = <<>>
    /\ providers = {}
    /\ activeModelId = Undefined
    /\ requests = 0
    /\ calls = 0
    /\ RetryReady
    /\ StreamIdle
    /\ AuxIdle

NextRegistry ==
    /\ UNCHANGED <<retryVars, streamVars, auxVars>>
    /\ \/ \E t \in Tasks : addConfiguration(t)
       \/ \E t \in Tasks : addConfiguration_validated(t)
       \/ \E t \in Tasks : addConfiguration_keyStored(t)
       \/ \E t \in Tasks : addConfiguration_saved(t)
       \/ \E t \in Tasks : updateConfiguration(t)
       \/ \E t \in Tasks : updateConfiguration_validated(t)
       \/ \E t \in Tasks : updateConfiguration_keyStored(t)
       \/ \E t \in Tasks : updateConfiguration_saved(t)
       \/ \E t \in Tasks : removeConfiguration(t)
       \/ \E t \in Tasks : removeConfiguration_keyRemoved(t)
       \/ \E t \in Tasks : removeConfiguration_saved(t)
       \/ \E t \in Tasks : setDefaultModel(t)
       \/ \E t \in Tasks : setDefaultModel_saved(t)
       \/ encryptApiKey

SpecRegistry == InitRegistry /\ [][NextRegistry]_vars


\* The registry driven by addConfiguration, removeConfiguration and
\* setDefaultModel alone (encryptApiKey supplies the key id a configuration
\* with an API key is added with).
NextDefault ==
    /\ UNCHANGED <<retryVars, streamVars, auxVars>>
    /\ \/ \E t \in Tasks : addConfiguration(t)
       \/ \E t \in Tasks : addConfiguration_validated(t)
       \/ \E t \in Tasks : addConfiguration_keyStored(t)
       \/ \E t \in Tasks : addConfiguration_saved(t)
       \/ \E t \in Tasks : removeConfiguration(t)
       \/ \E t \in Tasks : removeConfiguration_keyRemoved(t)
       \/ \E t \in Tasks : removeConfiguration_saved(t)
       \/ \E t \in Tasks : setDefaultModel(t)
       \/ \E t \in Tasks : setDefaultModel_saved(t)
       \/ encryptApiKey

SpecDefault == InitRegistry /\ [][NextDefault]_vars

(***************************************************************************)
(* Properties of the registry                                              *)
(***************************************************************************)
IsDefaultIn(cfgs, id) == MapHas(cfgs, id) /\ MapGet(cfgs, id).isDefault
DefaultCount(cfgs) == Cardinality({i \in 1..Len(cfgs) : cfgs[i].isDefault})

\* The step is one of call t's own (no other call writes a task that is
\* validating or removing).
StepOf(t) == tasks'[t] # tasks[t]

\* C1: under every interleaving of addConfiguration, removeConfiguration and
\* setDefaultModel, at most one stored configuration has isDefault = true in
\* every state between two steps. A listener runs first thing in the step that
\* fires its event, so the state it observes is such a state.
C1_AtMostOneDefault == DefaultCount(configurations) <= 1

\* C2: the isDefault flag of a stored configuration becomes true only in a step
\* that runs setDefaultModel on that configuration's id, and that step leaves
\* no other configuration flagged.
C2_OnlySetDefaultSetsFlag ==
    [][\A id \in ModelIds :
          (IsDefaultIn(configurations', id) /\ ~IsDefaultIn(configurations, id)) =>
             /\ \E t \in Tasks : /\ tasks[t].pc # "defaultSaved"
                                 /\ tasks'[t].pc = "defaultSaved"
                                 /\ tasks'[t].cfg.id = id
             /\ defaultModelId' = id
             /\ \A other \in ModelIds \ {id} : ~IsDefaultIn(configurations', other)]_vars

\* C3: an addConfiguration or updateConfiguration call whose validation fails
\* rejects with CONFIGURATION_ERROR, and neither the call nor the rejection
\* changes the configuration map, the default pointer, the persisted entries or
\* the secret store, or fires an event.
C3_FailedValidationChangesNothing ==
    [][\A t \in Tasks :
          /\ (StepOf(t) /\ tasks'[t].pc = "validating") =>
                 (out' = <<>> /\ UNCHANGED registryVars)
          /\ (StepOf(t) /\ tasks[t].pc = "validating" /\ ~tasks[t].ok) =>
                 /\ out' = <<Reject(tasks[t].op, tasks[t].cfg.id, "CONFIGURATION_ERROR")>>
                 /\ tasks'[t] = Idle
                 /\ UNCHANGED registryVars]_vars

\* C3 witness: a call was just rejected for a failed validation while the
\* registry held configurations and the secret store held a key.
C3_Witness ==
    /\ \E op \in {"addConfiguration", "updateConfiguration"}, id \in ModelIds :
          out = <<Reject(op, id, "CONFIGURATION_ERROR")>>
    /\ Len(configurations) >= 2
    /\ \E id \in ModelIds : id \in secrets

\* C4: in the step in which removeConfiguration(id) finds id to be the default,
\* the first remaining configuration (in Map order) becomes the default, the
\* one getDefaultModel returns and the only one flagged; with none remaining
\* the default pointer and its persisted entry are cleared.
C4_RemoveDefaultPromotesFirst ==
    [][\A t \in Tasks :
          (/\ StepOf(t)
           /\ tasks[t].op = "removeConfiguration" /\ tasks[t].pc = "saved"
           /\ defaultModelId = tasks[t].cfg.id) =>
             IF Len(configurations) > 0
             THEN /\ defaultModelId' = configurations[1].id
                  /\ storedDefaultModel' = configurations[1].id
                  /\ Len(configurations') = Len(configurations)
                  /\ getDefaultModel(configurations', defaultModelId') = configurations'[1]
                  /\ \A i \in 1..Len(configurations') :
                        /\ configurations'[i].id = configurations[i].id
                        /\ configurations'[i].isDefault <=> (i = 1)
             ELSE /\ defaultModelId' = Undefined
                  /\ storedDefaultModel' = Undefined
                  /\ getDefaultModel(configurations', defaultModelId') = Undefined]_vars

\* C4 witness: a removal of the default has just promoted the first of two
\* remaining configurations, the other of which was added after it.
C4_Witness ==
    /\ \E t \in Tasks : /\ tasks[t].op = "removeConfiguration" /\ tasks[t].pc = "defaultSaved"
                        /\ out = <<Event("onDidRemoveModel", "m2")>>
    /\ Len(configurations) = 2
    /\ configurations[1].isDefault /\ ~configurations[2].isDefault
    /\ defaultModelId = configurations[1].id


(***************************************************************************)
(* AIServiceManager: provider registration and switchModel                 *)
(***************************************************************************)
registerProvider ==
    /\ \E id \in ProviderIds : providers' = providers \cup {id}
    /\ out' = <<>>
    /\ UNCHANGED <<registryVars, tasks, calls, activeModelId, requests>>

unregisterProvider ==
    /\ \E id \in providers : providers' = providers \ {id}
    /\ out' = <<>>
    /\ UNCHANGED <<registryVars, tasks, calls, activeModelId, requests>>

\* Mutant of switchModel: activeModelId is written before the provider is looked up.
switchModel_assignFirst ==
    /\ \E modelId \in ModelIds \cup {"nonexistent"} :
          LET err == switchModelError(configurations, providers, modelId)
          IN IF err = "MODEL_NOT_FOUND"
             THEN /\ out' = <<Reject("switchModel", modelId, err)>>
                  /\ UNCHANGED activeModelId
             ELSE /\ activeModelId' = modelId
                  /\ out' = IF err = "" THEN <<Event("onDidChangeActiveModel", modelId),
                                                Resolve("switchModel", modelId)>>
                            ELSE <<Reject("switchModel", modelId, err)>>
    /\ UNCHANGED <<registryVars, tasks, calls, providers, requests>>

\* switchModel has no await: it runs to its end in one step.
switchModel ==
    /\ \E modelId \in ModelIds \cup {"nonexistent"} :
          LET err == switchModelError(configurations, providers, modelId)
          IN IF err # ""
             THEN /\ out' = <<Reject("switchModel", modelId, err)>>
                  /\ UNCHANGED activeModelId
             ELSE /\ activeModelId' = modelId
                  /\ out' = <<Event("onDidChangeActiveModel", modelId),
                              Resolve("switchModel", modelId)>>
    /\ UNCHANGED <<registryVars, tasks, calls, providers, requests>>

\* The registries a manager may find: configurations with distinct ids in any
\* Map order, one of them the default.
Orders(S) == {p \in [1..Cardinality(S) -> S] : \A i, j \in DOMAIN p : p[i] = p[j] => i = j}
RegistryAtRest ==
    {<<>>} \cup UNION {{[i \in DOMAIN p |-> Config(p[i], p[i] = d, Undefined)] :
                            p \in Orders(S), d \in S} : S \in SUBSET ModelIds \ {{}}}

InitSwitch ==
    /\ configurations \in RegistryAtRest
    /\ defaultModelId = (IF configurations = <<>> THEN Undefined
                         ELSE configurations[CHOOSE i \in DOMAIN configurations :
                                                configurations[i].isDefault].id)
    /\ storedConfigurations = configurations
    /\ storedDefaultModel = defaultModelId
    /\ secrets = {}
    /\ tasks = [t \in Tasks |-> Idle]
    /\ out = <<>>
    /\ providers = {}
    /\ activeModelId = Undefined
    /\ requests = 0
    /\ calls = 0
    /\ RetryReady
    /\ StreamIdle
    /\ AuxIdle

NextSwitch ==
    /\ UNCHANGED <<retryVars, streamVars, auxVars>>
    /\ \/ registerProvider
       \/ unregisterProvider
       \/ switchModel

SpecSwitch == InitSwitch /\ [][NextSwitch]_vars

\* C9: a switchModel call fails exactly when the id has no configuration
\* (MODEL_NOT_FOUND) or its provider is not registered (SERVICE_UNAVAILABLE),
\* and then activeModelId is as before and no event fires; a call that succeeds
\* sets activeModelId to the id, fires onDidChangeActiveModel once, and leaves
\* the registry, the providers and the count of provider requests as they were.
C9_SwitchModelFrame ==
    [][(out' # <<>> /\ out'[Len(out')].name = "switchModel") =>
          LET modelId == out'[Len(out')].id
              known == \E i \in DOMAIN configurations : configurations[i].id = modelId
              registered == known /\ \E i \in DOMAIN configurations :
                               /\ configurations[i].id = modelId
                               /\ configurations[i].provider \in providers
          IN /\ UNCHANGED <<registryVars, providers, requests>>
             /\ IF known /\ registered
                THEN /\ activeModelId' = modelId
                     /\ out' = <<Event("onDidChangeActiveModel", modelId),
                                 Resolve("switchModel", modelId)>>
                ELSE /\ activeModelId' = activeModelId
                     /\ out' = <<Reject("switchModel", modelId,
                                        IF known THEN "SERVICE_UNAVAILABLE"
                                        ELSE "MODEL_NOT_FOUND")>>]_vars

\* C9 witness: with a model active, a switch to an unknown id was rejected.
C9_Witness ==
    /\ out = <<Reject("switchModel", "nonexistent", "MODEL_NOT_FOUND")>>
    /\ activeModelId \in ModelIds


(***************************************************************************)
(* AIError, DefaultErrorHandler and AIServiceManager.handleError           *)
(***************************************************************************)
DefaultMaxRetries == 3      \* executeWithRetry: maxRetries = 3
MaxRetryDelay == 30000      \* getRetryDelay: Math.min(..., 30000)
DefaultBaseDelay == 1000    \* getRetryDelay: error.retryAfter || 1000
MaxRetriesArg == 4          \* the largest maxRetries a caller passes

\* retryAfter is <<>> when the error carries none, <<ms>> otherwise.
AIError(code, retryable, retryAfter) ==
    [isAIError |-> TRUE, code |-> code, retryable |-> retryable, retryAfter |-> retryAfter]
\* An exception that is no AIError: a transport error with its code.
RawError(code) == [isAIError |-> FALSE, code |-> code, retryable |-> FALSE, retryAfter |-> <<>>]

connectionFailed == AIError("CONNECTION_FAILED", TRUE, <<5000>>)
timeout == AIError("TIMEOUT", TRUE, <<1000>>)
invalidApiKey == AIError("INVALID_API_KEY", FALSE, <<>>)
modelNotFound == AIError("MODEL_NOT_FOUND", FALSE, <<>>)
rateLimited(retryAfter) == AIError("RATE_LIMITED", TRUE, retryAfter)
configurationError == AIError("CONFIGURATION_ERROR", FALSE, <<>>)
operationCancelled == AIError("TIMEOUT", FALSE, <<>>)

\* What the provider operation may throw.
OperationErrors ==
    {connectionFailed, invalidApiKey, modelNotFound, configurationError,
     rateLimited(<<>>), rateLimited(<<0>>), rateLimited(<<20000>>),
     RawError("ECONNREFUSED"), RawError("ETIMEDOUT"), RawError("EOTHER")}

handleError(error) ==
    IF error.isAIError THEN error
    ELSE IF error.code = "ECONNREFUSED" \/ error.code = "ENOTFOUND" THEN connectionFailed
    ELSE IF error.code = "ETIMEDOUT" THEN timeout
    ELSE AIError("INTERNAL_ERROR", FALSE, <<>>)

\* Mutant of shouldRetry: every error is retried.
shouldRetry_always(error) == TRUE

shouldRetry(error) == error.retryable

RECURSIVE Pow2(_)
Pow2(n) == IF n = 0 THEN 1 ELSE 2 * Pow2(n - 1)
Min(a, b) == IF a < b THEN a ELSE b

\* Mutant of getRetryDelay: the delay is not capped.
getRetryDelay_uncapped(error, attempt) ==
    LET baseDelay == IF error.retryAfter = <<>> \/ error.retryAfter[1] = 0
                     THEN DefaultBaseDelay ELSE error.retryAfter[1]
    IN baseDelay * Pow2(attempt)

\* error.retryAfter || 1000: undefined and 0 are both falsy.
getRetryDelay(error, attempt) ==
    LET baseDelay == IF error.retryAfter = <<>> \/ error.retryAfter[1] = 0
                     THEN DefaultBaseDelay ELSE error.retryAfter[1]
    IN Min(baseDelay * Pow2(attempt), MaxRetryDelay)

(***************************************************************************)
(* AIServiceManager.executeWithRetry                                       *)
(***************************************************************************)
\* Mutant of isCancellationRequested: the token is not looked at.
isCancellationRequested_ignored(tok) == FALSE

\* token?.isCancellationRequested
isCancellationRequested(tok) == tok

\* Mutant of LastAttempt: the loop gives up one attempt early.
LastAttempt_early(attempt, maxRetries) == attempt >= maxRetries - 2

\* attempt === maxRetries - 1
LastAttempt(attempt, maxRetries) == attempt = maxRetries - 1

\* The head of the for loop, down to the call of operation().
LoopTop(attempt, maxRetries) ==
    IF attempt < maxRetries
    THEN IF isCancellationRequested(token)
         THEN /\ retry' = [pc |-> "rejected", attempt |-> attempt, maxRetries |-> maxRetries]
              /\ thrown' = operationCancelled
              /\ UNCHANGED requests
         ELSE /\ retry' = [pc |-> "running", attempt |-> attempt, maxRetries |-> maxRetries]
              /\ requests' = requests + 1
              /\ UNCHANGED thrown
    ELSE /\ retry' = [pc |-> "rejected", attempt |-> attempt, maxRetries |-> maxRetries]
         /\ thrown' = handleError(lastError)
         /\ UNCHANGED requests

executeWithRetry ==
    /\ retry.pc = "ready"
    /\ \E maxRetries \in 1..MaxRetriesArg : LoopTop(0, maxRetries)
    /\ UNCHANGED <<token, lastError, errs, sleeps, cancelledAt>>

\* return await operation()
operation_resolves ==
    /\ retry.pc = "running"
    /\ retry' = [retry EXCEPT !.pc = "resolved"]
    /\ UNCHANGED <<requests, token, lastError, errs, sleeps, thrown, cancelledAt>>

\* catch (error): classify, then rethrow or sleep
operation_rejects ==
    /\ retry.pc = "running"
    /\ \E error \in OperationErrors :
          LET aiError == handleError(error)
          IN /\ lastError' = error
             /\ errs' = Append(errs, aiError)
             /\ IF ~shouldRetry(aiError) \/ LastAttempt(retry.attempt, retry.maxRetries)
                THEN /\ retry' = [retry EXCEPT !.pc = "rejected"]
                     /\ thrown' = aiError
                     /\ UNCHANGED sleeps
                ELSE /\ retry' = [retry EXCEPT !.pc = "sleeping"]
                     /\ sleeps' = Append(sleeps, getRetryDelay(aiError, retry.attempt))
                     /\ UNCHANGED thrown
    /\ UNCHANGED <<requests, token, cancelledAt>>

\* The timer of this.delay(delay) fires: attempt++, back to the head of the loop.
delay_elapsed ==
    /\ retry.pc = "sleeping"
    /\ LoopTop(retry.attempt + 1, retry.maxRetries)
    /\ UNCHANGED <<token, lastError, errs, sleeps, cancelledAt>>

\* The caller signals the token.
cancel ==
    /\ ~token
    /\ retry.pc \in {"ready", "running", "sleeping"}
    /\ token' = TRUE
    /\ cancelledAt' = [pc |-> retry.pc, requests |-> requests]
    /\ UNCHANGED <<retry, requests, lastError, errs, sleeps, thrown>>

InitRetry ==
    /\ configurations = <<>>
    /\ defaultModelId = Undefined
    /\ storedConfigurations = <<>>
    /\ storedDefaultModel = Undefined
    /\ secrets = {}
    /\ tasks = [t \in Tasks |-> Idle]
    /\ out = <<>>
    /\ providers = {}
    /\ activeModelId = Undefined
    /\ requests = 0
    /\ calls = 0
    /\ RetryReady
    /\ StreamIdle
    /\ AuxIdle

NextRetry ==
    /\ UNCHANGED <<registryVars, tasks, calls, out, providers, activeModelId, streamVars, auxVars>>
    /\ \/ executeWithRetry
       \/ operation_resolves
       \/ operation_rejects
       \/ delay_elapsed
       \/ cancel

SpecRetry == InitRetry /\ [][NextRetry]_vars

AllRetryable == \A i \in DOMAIN errs : errs[i].retryable

\* C5: a call that has rejected, whose every attempt failed with a retryable
\* error and whose token was never signalled, invoked the operation exactly
\* maxRetries times and rejected with the classified error of the last attempt;
\* no call ever invokes the operation more than maxRetries times.
C5_ExactlyMaxRetriesAttempts ==
    /\ requests <= retry.maxRetries
    /\ (retry.pc = "rejected" /\ ~token /\ AllRetryable) =>
          /\ requests = retry.maxRetries
          /\ Len(errs) = retry.maxRetries
          /\ thrown = errs[Len(errs)]

\* C5 witness: with the default maxRetries, three attempts failed with
\* retryable errors and the call rejected.
C5_Witness ==
    /\ retry.pc = "rejected" /\ ~token /\ AllRetryable
    /\ retry.maxRetries = DefaultMaxRetries
    /\ requests = DefaultMaxRetries
    /\ thrown.code = "CONNECTION_FAILED"

BaseDelayOf(error) ==
    IF error.retryAfter = <<>> THEN 1000
    ELSE IF error.retryAfter[1] = 0 THEN 1000 ELSE error.retryAfter[1]

\* C6 (as claimed): the sleep before attempt k (k >= 2, attempts counted from
\* 1) lasts min(baseDelay * 2^(k-1), 30000) ms, baseDelay being the retry-after
\* of the error that just failed, 1000 when it carries none.
C6_DelayAsClaimed ==
    \A i \in DOMAIN sleeps :
        LET k == i + 1
            baseDelay == IF errs[i].retryAfter = <<>> THEN 1000 ELSE errs[i].retryAfter[1]
        IN sleeps[i] = Min(baseDelay * Pow2(k - 1), 30000)

\* C6 (amended): the sleep before attempt k (k >= 2, attempts counted from 1)
\* lasts min(baseDelay * 2^(k-2), 30000) ms, baseDelay being the retry-after of
\* the error that just failed, 1000 when it carries none or zero.
C6_DelayDoublesFromBase ==
    /\ Len(sleeps) <= Len(errs)
    /\ \A i \in DOMAIN sleeps :
          LET k == i + 1
          IN sleeps[i] = Min(BaseDelayOf(errs[i]) * Pow2(k - 2), 30000)

\* C6 witness: the second sleep was cut to the 30 s cap, the first was not.
C6_Witness ==
    /\ Len(sleeps) >= 2
    /\ sleeps[1] = 20000
    /\ sleeps[2] = 30000

\* C7: an attempt that fails with a non-retryable error is the last one: the
\* call rejects with that classified error without having slept after it.
C7_NonRetryableFailsFast ==
    \A i \in DOMAIN errs :
        ~errs[i].retryable =>
            /\ i = Len(errs)
            /\ retry.pc = "rejected"
            /\ thrown = errs[i]
            /\ requests = i
            /\ Len(sleeps) = i - 1

\* C7 witness: the first attempt failed with an invalid API key and the call
\* rejected with it, three attempts being allowed.
C7_Witness ==
    /\ retry.pc = "rejected" /\ retry.maxRetries = DefaultMaxRetries
    /\ errs = <<invalidApiKey>>
    /\ thrown = invalidApiKey
    /\ requests = 1 /\ sleeps = <<>>

\* C8: when the token is signalled before the call starts or while it sleeps
\* between two attempts, no attempt is made from then on, the call does not
\* resolve, and it rejects with a TIMEOUT error.
C8_CancelledBeforeAttempt ==
    cancelledAt.pc \in {"ready", "sleeping"} =>
        /\ requests = cancelledAt.requests
        /\ retry.pc \in {"ready", "sleeping", "rejected"}
        /\ retry.pc = "rejected" => thrown.code = "TIMEOUT"

\* C8 witness: cancelled during the sleep after the first failed attempt of
\* three, the call rejected with TIMEOUT having made one attempt.
C8_Witness ==
    /\ cancelledAt = [pc |-> "sleeping", requests |-> 1]
    /\ retry.pc = "rejected" /\ retry.maxRetries = DefaultMaxRetries
    /\ thrown = operationCancelled
    /\ requests = 1


(***************************************************************************)
(* Streaming: makeStreamingRequest, LocalModelService.sendStreamRequest    *)
(* and AIServiceManager.sendChatMessageStream                              *)
(***************************************************************************)
MaxFrames == 2      \* network chunks the response stream carries at most
MaxLines == 2       \* lines left of one network chunk after filtering

\* What a line of the response is to sendStreamRequest: JSON with content,
\* JSON whose content is empty, or text JSON.parse throws on.
LineKinds == {"content", "empty", "invalid"}
\* What a line of a network chunk is before filtering: one of the above behind
\* "data: ", the sentinel "data: [DONE]", or a blank line.
RawLineKinds == LineKinds \cup {"[DONE]", "blank"}
Frames == UNION {[1..n -> RawLineKinds] : n \in 0..MaxLines}

\* .filter(line => line !== '' && line !== '[DONE]')
KeptLine(line) == line # "blank" /\ line # "[DONE]"

\* text.split, strip "data: ", filter: the lines the inner generator yields.
FilterLines(frame) == SelectSeq(frame, KeptLine)

\* The number of kept lines ahead of the first sentinel of the chunk.
KeptBeforeDone(frame) ==
    LET i == CHOOSE k \in DOMAIN frame :
                 frame[k] = "[DONE]" /\ \A j \in 1..(k - 1) : frame[j] # "[DONE]"
    IN Len(FilterLines(SubSeq(frame, 1, i - 1)))
HasDone(frame) == \E k \in DOMAIN frame : frame[k] = "[DONE]"

\* What the transport may fail with.
TransportErrors == {RawError("ECONNREFUSED"), RawError("ETIMEDOUT"), RawError("Canceled")}

\* LocalModelService.handleRequestError: every classified error is retryable.
handleRequestError(error) ==
    IF error.isAIError THEN error
    ELSE IF error.code = "ECONNREFUSED" \/ error.code = "ENOTFOUND"
         THEN AIError("CONNECTION_FAILED", TRUE, <<>>)
    ELSE IF error.code = "ETIMEDOUT" THEN AIError("TIMEOUT", TRUE, <<>>)
    ELSE AIError("INTERNAL_ERROR", TRUE, <<>>)

\* The catch of sendStreamRequest followed by the catch of
\* sendChatMessageStream: classify, fire onDidError, reject the stream.
StreamRejects(error) ==
    LET aiError == handleError(handleRequestError(error))
    IN /\ stream' = [stream EXCEPT !.pc = "rejected", !.buf = <<>>]
       /\ thrown' = aiError
       /\ out' = <<Event("onDidError", aiError.code)>>

\* Both for-await loops are left and the generators return.
StreamEnds ==
    /\ stream' = [stream EXCEPT !.pc = "done", !.buf = <<>>]
    /\ out' = <<>>
    /\ UNCHANGED thrown

\* The consumer's first next(): the provider is asked for the stream.
sendChatMessageStream ==
    /\ stream.pc = "idle"
    /\ \E streamingSupported \in BOOLEAN :
          IF streamingSupported
          THEN /\ stream' = [stream EXCEPT !.pc = "connecting"]
               /\ requests' = requests + 1
               /\ out' = <<>>
               /\ UNCHANGED thrown
          ELSE /\ StreamRejects(configurationError)
               /\ UNCHANGED requests
    /\ UNCHANGED token

\* await this.requestService.request(...) settles.
makeStreamingRequest ==
    /\ stream.pc = "connecting"
    /\ \/ /\ stream' = [stream EXCEPT !.pc = "reading"]
          /\ out' = <<>>
          /\ UNCHANGED thrown
       \/ \E error \in TransportErrors \cup {AIError("INVALID_RESPONSE", FALSE, <<>>)} :
             StreamRejects(error)
    /\ UNCHANGED <<requests, token>>

\* Where the inner generator stands once it is asked for the next line.
NextLine(buf) == IF buf = <<>> THEN "reading" ELSE "line"

\* The response stream hands over a network chunk: it is decoded, split into
\* lines and filtered.
read_chunk ==
    /\ stream.pc = "reading"
    /\ stream.frames < MaxFrames
    /\ \E frame \in Frames :
          LET lines == FilterLines(frame)
          IN stream' = [stream EXCEPT
                 !.frames = @ + 1, !.buf = lines, !.pc = NextLine(lines),
                 !.doneLine = IF stream.doneLine < 0 /\ HasDone(frame)
                              THEN stream.lines + KeptBeforeDone(frame) ELSE @]
    /\ out' = <<>>
    /\ UNCHANGED <<requests, token, thrown>>

\* The response stream ends.
read_end ==
    /\ stream.pc = "reading"
    /\ StreamEnds
    /\ UNCHANGED <<requests, token>>

\* Reading the response stream fails.
read_error ==
    /\ stream.pc = "reading"
    /\ \E error \in TransportErrors : StreamRejects(error)
    /\ UNCHANGED <<requests, token>>

\* sendStreamRequest's loop body for one line.
sendStreamRequest_line ==
    /\ stream.pc = "line"
    /\ LET line == Head(stream.buf)
           rest == Tail(stream.buf)
       IN IF isCancellationRequested(token)
          THEN StreamEnds
          ELSE /\ IF line = "content"
                  THEN stream' = [stream EXCEPT !.lines = @ + 1, !.buf = rest,
                                                !.chunk = stream.lines + 1, !.pc = "chunk"]
                  ELSE stream' = [stream EXCEPT !.lines = @ + 1, !.buf = rest,
                                                !.pc = NextLine(rest)]
               /\ out' = <<>>
               /\ UNCHANGED thrown
    /\ UNCHANGED <<requests, token>>

\* sendChatMessageStream's loop body for one chunk of the provider's stream.
sendChatMessageStream_chunk ==
    /\ stream.pc = "chunk"
    /\ IF isCancellationRequested(token)
       THEN StreamEnds
       ELSE /\ stream' = [stream EXCEPT !.delivered = Append(@, stream.chunk),
                                        !.pc = "yielded"]
            /\ out' = <<>>
            /\ UNCHANGED thrown
    /\ UNCHANGED <<requests, token>>

\* The consumer asks for the next chunk.
consumer_next ==
    /\ stream.pc = "yielded"
    /\ stream' = [stream EXCEPT !.pc = NextLine(stream.buf)]
    /\ out' = <<>>
    /\ UNCHANGED <<requests, token, thrown>>

\* The caller signals the token while the stream is open.
cancel_stream ==
    /\ ~token
    /\ stream.pc \in {"connecting", "reading", "line", "chunk", "yielded"}
    /\ token' = TRUE
    /\ stream' = [stream EXCEPT !.cancelledPc = stream.pc,
                                !.deliveredAtCancel = stream.delivered]
    /\ out' = <<>>
    /\ UNCHANGED <<requests, thrown>>

InitStream ==
    /\ configurations = <<>>
    /\ defaultModelId = Undefined
    /\ storedConfigurations = <<>>
    /\ storedDefaultModel = Undefined
    /\ secrets = {}
    /\ tasks = [t \in Tasks |-> Idle]
    /\ out = <<>>
    /\ providers = {}
    /\ activeModelId = Undefined
    /\ requests = 0
    /\ calls = 0
    /\ RetryReady
    /\ StreamIdle
    /\ AuxIdle

NextStream ==
    /\ UNCHANGED <<registryVars, tasks, calls, providers, activeModelId>>
    /\ UNCHANGED <<retry, lastError, errs, sleeps, cancelledAt, auxVars>>
    /\ \/ sendChatMessageStream
       \/ makeStreamingRequest
       \/ read_chunk
       \/ read_end
       \/ read_error
       \/ sendStreamRequest_line
       \/ sendChatMessageStream_chunk
       \/ consumer_next
       \/ cancel_stream

SpecStream == InitStream /\ [][NextStream]_vars

\* The token was signalled after the response had started to stream.
CancelledMidStream ==
    token /\ stream.cancelledPc \in {"reading", "line", "chunk", "yielded"}

\* C10: once the token is signalled while the response streams, the chunks
\* delivered to the consumer stay exactly those delivered before, and the
\* stream does not reject: when it is over, it has ended normally.
C10_CancelledStreamEndsNormally ==
    CancelledMidStream =>
        /\ stream.delivered = stream.deliveredAtCancel
        /\ stream.pc # "rejected"

\* After a cancellation in mid-stream no further chunk is delivered.
NoChunkAfterCancel ==
    CancelledMidStream => stream.delivered = stream.deliveredAtCancel

\* A stream cancelled after its first chunk ended normally.
CancelledStreamEnded ==
    /\ CancelledMidStream
    /\ stream.pc = "done"
    /\ Len(stream.deliveredAtCancel) >= 1


\* C11: once a [DONE] line has been received, no content of a later line (of
\* the same network chunk or of a later one) is delivered to the consumer:
\* every delivered chunk comes from a line ahead of the sentinel.
C11_DoneEndsStream ==
    stream.doneLine >= 0 =>
        \A i \in DOMAIN stream.delivered : stream.delivered[i] <= stream.doneLine


(***************************************************************************)
(* LocalModelService.sendRequest, makeRequest and the providers'           *)
(* responseFormatter                                                       *)
(***************************************************************************)
Absent == "absent"          \* the property is not in the JSON object
Text == "hi"                \* a non-empty string
\* The reply body is no JSON: bodyJson is undefined.
Malformed == [json |-> FALSE, message |-> Absent, response |-> Absent,
              choices |-> Absent, content |-> Absent]

LocalProviders == {"ollama", "lmstudio", "llamacpp"}
Statuses == {200, 204, 404, 500}

\* The JSON objects a server may reply with, by the properties the formatters
\* read: message (absent, without content, with content), response, choices
\* (absent, [], [{message:{content}}], [{message:{}}], [{text}], [{}]), content.
Bodies ==
    [json : {TRUE},
     message : {Absent, "noContent", Text},
     response : {Absent, Text},
     choices : {Absent, "empty", "message", "messageNoContent", "text", "bare"},
     content : {Absent, Text}]

\* x || '' for a property that is absent or a string.
OrEmpty(x) == IF x = Absent THEN EmptyString ELSE x

Formatted(content) == [threw |-> FALSE, content |-> content, error |-> NoError]
FormatterThrew(error) == [threw |-> TRUE, content |-> Undefined, error |-> error]

\* OllamaProvider / LMStudioProvider / LlamaCppProvider .responseFormatter
responseFormatter(provider, body) ==
    IF body = Malformed THEN FormatterThrew(RawError("TypeError"))
    ELSE IF provider = "ollama" THEN
        IF body.message # Absent
        THEN Formatted(IF body.message = Text THEN Text ELSE Undefined)
        ELSE Formatted(OrEmpty(body.response))
    ELSE IF provider = "lmstudio" THEN
        IF body.choices \in {Absent, "empty"}
        THEN FormatterThrew(AIError("INVALID_RESPONSE", FALSE, <<>>))
        ELSE IF body.choices = "message" THEN Formatted(Text)
        ELSE IF body.choices = "messageNoContent" THEN Formatted(Undefined)
        ELSE IF body.choices = "text" THEN Formatted(Text)
        ELSE Formatted(EmptyString)
    ELSE Formatted(IF body.content # Absent THEN body.content ELSE OrEmpty(body.response))

Is2xx(statusCode) == statusCode >= 200 /\ statusCode < 300

LocalRejects(error) ==
    local' = [local EXCEPT !.pc = "rejected", !.error = handleRequestError(error)]

\* sendRequest up to the await of makeRequest: ensureHealthy throws when the
\* server is not healthy.
sendRequest ==
    /\ local.pc = "idle"
    /\ \E provider \in LocalProviders, healthy \in BOOLEAN :
          IF healthy
          THEN local' = [local EXCEPT !.pc = "requesting", !.provider = provider]
          ELSE local' = [local EXCEPT !.pc = "rejected", !.provider = provider,
                                      !.error = AIError("SERVICE_UNAVAILABLE", FALSE, <<>>)]

\* The request fails in the transport.
makeRequest_fails ==
    /\ local.pc = "requesting"
    /\ \E error \in TransportErrors : LocalRejects(error)

\* The server replies: makeRequest returns bodyJson or throws on the status,
\* then sendRequest formats the reply.
makeRequest_replies ==
    /\ local.pc = "requesting"
    /\ \E statusCode \in Statuses, body \in Bodies \cup {Malformed} :
          LET r == responseFormatter(local.provider, body)
              got == [local EXCEPT !.status = statusCode, !.body = body]
          IN IF ~Is2xx(statusCode)
             THEN local' = [got EXCEPT !.pc = "rejected",
                                       !.error = handleRequestError(
                                                    AIError("INVALID_RESPONSE", FALSE, <<>>))]
             ELSE IF r.threw
             THEN local' = [got EXCEPT !.pc = "rejected",
                                       !.error = handleRequestError(r.error)]
             ELSE local' = [got EXCEPT !.pc = "resolved", !.content = r.content]

InitLocal ==
    /\ configurations = <<>>
    /\ defaultModelId = Undefined
    /\ storedConfigurations = <<>>
    /\ storedDefaultModel = Undefined
    /\ secrets = {}
    /\ tasks = [t \in Tasks |-> Idle]
    /\ out = <<>>
    /\ providers = {}
    /\ activeModelId = Undefined
    /\ requests = 0
    /\ calls = 0
    /\ RetryReady
    /\ StreamIdle
    /\ LocalIdle
    /\ ChatIdle
    /\ MonitorIdle
    /\ DiscoveryIdle
    /\ ConvIdle
    /\ RestIdle

NextLocal ==
    /\ UNCHANGED <<registryVars, managerVars, tasks, calls, out, retryVars, streamVars, chat, monitor, discovery, conv, restVars>>
    /\ \/ sendRequest
       \/ makeRequest_fails
       \/ makeRequest_replies

SpecLocal == InitLocal /\ [][NextLocal]_vars

\* The reply carries a content field the provider's formatter reads.
HasContentField(provider, body) ==
    /\ body # Malformed
    /\ IF provider = "ollama" THEN body.message = Text \/ body.response = Text
       ELSE IF provider = "lmstudio" THEN body.choices \in {"message", "text"}
       ELSE body.content = Text \/ body.response = Text

\* C12: a sendRequest call that got a reply with a non-2xx status, a malformed
\* body or a body without the provider's content field has rejected with a
\* classified AIError whenever it has settled.
C12_BadReplyRejectsClassified ==
    (/\ local.pc \in {"resolved", "rejected"}
     /\ local.status # 0
     /\ ~Is2xx(local.status) \/ ~HasContentField(local.provider, local.body)) =>
        local.pc = "rejected" /\ local.error.isAIError


(***************************************************************************)
(* AIServiceManager request operations: getActiveProvider, enrichContext,  *)
(* executeWithRetry, then the response or the error event                  *)
(***************************************************************************)
\* The operations of the shape of sendChatMessage; ragQuery also searches the
\* index before it calls the provider.
RequestOps == {"sendChatMessage", "refactorCode", "analyzeCode", "chainOfThought", "ragQuery"}

\* The promise of the operation rejects with `error`, having fired `fired`.
ChatRejects(op, error, fired) ==
    chat' = [op |-> op, pc |-> "rejected", events |-> fired, error |-> error]

\* getActiveProvider: the error it throws, NoError when it returns a provider.
\* `active` is activeModelId after the fallback to the default model.
getActiveProviderError(cfgs, provs, active) ==
    IF ~MapHas(cfgs, active) THEN modelNotFound
    ELSE IF MapGet(cfgs, active).provider \notin provs
         THEN AIError("SERVICE_UNAVAILABLE", FALSE, <<>>)
    ELSE NoError

\* A request operation is called and resolves its provider. The throw of
\* getActiveProvider is outside the operation's try block.
getActiveProvider ==
    /\ chat.pc = "idle"
    /\ \E op \in RequestOps :
          LET hasDefault == Truthy(defaultModelId) /\ MapHas(configurations, defaultModelId)
              defaultModel == getDefaultModel(configurations, defaultModelId)
              switchErr == IF ~hasDefault THEN ""
                           ELSE switchModelError(configurations, providers, defaultModel.id)
          IN IF ~Truthy(activeModelId)
             THEN IF ~hasDefault
                  THEN /\ ChatRejects(op, configurationError, <<>>)
                       /\ UNCHANGED activeModelId
                  ELSE IF switchErr # ""
                  THEN /\ ChatRejects(op, AIError(switchErr, FALSE, <<>>), <<>>)
                       /\ UNCHANGED activeModelId
                  ELSE /\ activeModelId' = defaultModel.id
                       /\ chat' = [op |-> op, pc |-> "enriching",
                                   events |-> <<"onDidChangeActiveModel">>, error |-> NoError]
             ELSE LET err == getActiveProviderError(configurations, providers, activeModelId)
                  IN /\ IF err # NoError
                        THEN ChatRejects(op, err, <<>>)
                        ELSE chat' = [op |-> op, pc |-> "enriching",
                                      events |-> <<>>, error |-> NoError]
                     /\ UNCHANGED activeModelId
    /\ UNCHANGED <<providers, requests, retryVars>>

\* enrichContext settles: the context passed in, the last known one, or a
\* fresh extraction, which may throw. It is outside the try block too. On
\* success the operation goes on into executeWithRetry (ragQuery: into the
\* index search).
enrichContext ==
    /\ chat.pc = "enriching"
    /\ \/ \E source \in {"context", "currentContext", "extractContext"} :
             IF chat.op = "ragQuery"
             THEN /\ chat' = [chat EXCEPT !.pc = "searching"]
                  /\ UNCHANGED <<requests, retry, thrown>>
             ELSE /\ chat' = [chat EXCEPT !.pc = "executing"]
                  /\ LoopTop(0, DefaultMaxRetries)
       \/ /\ ChatRejects(chat.op, RawError("EOTHER"), chat.events)
          /\ UNCHANGED <<requests, retry, thrown>>
    /\ UNCHANGED <<providers, activeModelId, token, lastError, errs, sleeps, cancelledAt>>

\* The catch block of the operation: classify, fire onDidError, rethrow.
ChatCatches(error) ==
    LET aiError == handleError(error)
    IN ChatRejects(chat.op, aiError, Append(chat.events, "onDidError"))

\* ragQuery: contextProvider.searchSimilar settles, inside the try block.
searchSimilar ==
    /\ chat.pc = "searching"
    /\ \/ /\ chat' = [chat EXCEPT !.pc = "executing"]
          /\ LoopTop(0, DefaultMaxRetries)
       \/ /\ ChatCatches(RawError("EOTHER"))
          /\ UNCHANGED <<requests, retry, thrown>>
    /\ UNCHANGED <<providers, activeModelId, token, lastError, errs, sleeps, cancelledAt>>

\* executeWithRetry has settled: fire the response event and return, or catch.
request_settles ==
    /\ chat.pc = "executing"
    /\ retry.pc \in {"resolved", "rejected"}
    /\ IF retry.pc = "resolved"
       THEN chat' = [chat EXCEPT !.pc = "resolved",
                                 !.events = Append(@, "onDidReceiveResponse")]
       ELSE ChatCatches(thrown)
    /\ UNCHANGED <<managerVars, retryVars>>

\* The registries the manager is created over: empty, or one configuration
\* that is the default.
ChatRegistries == {r \in RegistryAtRest : Len(r) <= 1}

InitChat ==
    /\ configurations \in ChatRegistries
    /\ defaultModelId = (IF configurations = <<>> THEN Undefined ELSE configurations[1].id)
    /\ storedConfigurations = configurations
    /\ storedDefaultModel = defaultModelId
    /\ secrets = {}
    /\ tasks = [t \in Tasks |-> Idle]
    /\ out = <<>>
    /\ providers \in SUBSET ProviderIds
    /\ activeModelId \in {Undefined} \cup ModelIds
    /\ requests = 0
    /\ calls = 0
    /\ RetryReady
    /\ StreamIdle
    /\ LocalIdle
    /\ ChatIdle
    /\ MonitorIdle
    /\ DiscoveryIdle
    /\ ConvIdle
    /\ RestIdle

NextChat ==
    /\ UNCHANGED <<registryVars, tasks, calls, out, streamVars, local, monitor, discovery, conv, restVars>>
    /\ \/ getActiveProvider
       \/ enrichContext
       \/ searchSimilar
       \/ request_settles
       \/ (chat.pc = "executing" /\ operation_resolves /\ UNCHANGED <<chat, providers, activeModelId>>)
       \/ (chat.pc = "executing" /\ operation_rejects /\ UNCHANGED <<chat, providers, activeModelId>>)
       \/ (chat.pc = "executing" /\ delay_elapsed /\ UNCHANGED <<chat, providers, activeModelId>>)
       \/ (chat.pc \notin {"resolved", "rejected"} /\ cancel
             /\ UNCHANGED <<chat, providers, activeModelId>>)

SpecChat == InitChat /\ [][NextChat]_vars

\* C13: a request operation that has rejected rejected with a classified
\* AIError.
C13_RejectionsAreClassified ==
    chat.pc = "rejected" => chat.error.isAIError

CountOf(events, name) == Cardinality({i \in DOMAIN events : events[i] = name})

\* C14: a sendChatMessage call that has settled fired exactly one of
\* onDidReceiveResponse and onDidError: the former if it resolved, the latter
\* if it rejected.
C14_OneEventPerCall ==
    (chat.op = "sendChatMessage" /\ chat.pc \in {"resolved", "rejected"}) =>
        /\ CountOf(chat.events, "onDidReceiveResponse") = (IF chat.pc = "resolved" THEN 1 ELSE 0)
        /\ CountOf(chat.events, "onDidError") = (IF chat.pc = "rejected" THEN 1 ELSE 0)


(***************************************************************************)
(* LocalModelRegistry and LocalModelHealthMonitor                          *)
(***************************************************************************)
MaxPasses == 2      \* checkAllMonitoredModels runs that may be in progress at once

SeqRemove(seq, x) == SelectSeq(seq, LAMBDA y : y # x)
SeqHas(seq, x) == \E i \in DOMAIN seq : seq[i] = x

\* What an observer sees of `id` after a statement of the registry has run.
Snapshot(name, id, m) ==
    [name |-> name, id |-> id, registered |-> id \in m.models,
     monitored |-> SeqHas(m.monitored, id), disposed |-> m.instances[id] = "disposed"]

\* RunOnceScheduler.schedule / cancel / isScheduled on the timer flag.
schedule(m) == [m EXCEPT !.timer = TRUE]
cancelTimer(m) == [m EXCEPT !.timer = FALSE]
isScheduled(m) == m.timer

\* A Set hands an element added during an iteration to that iteration and
\* never hands out a deleted one: every running pass keeps what it has yet to
\* visit.
SetAdd(m, id) ==
    [m EXCEPT !.monitored = Append(@, id),
              !.passes = [i \in DOMAIN @ |-> [@[i] EXCEPT !.pending = Append(@, id)]]]
SetDelete(m, id) ==
    [m EXCEPT !.monitored = SeqRemove(@, id),
              !.passes = [i \in DOMAIN @ |-> [@[i] EXCEPT !.pending = SeqRemove(@, id)]]]

\* LocalModelHealthMonitor.startMonitoring: add, start a first check, schedule
\* the timer unless it is scheduled.
startMonitoring(m, id) ==
    IF SeqHas(m.monitored, id) THEN m
    ELSE LET added == [SetAdd(m, id) EXCEPT !.checking = @ \cup {id}]
         IN IF ~isScheduled(added) THEN schedule(added) ELSE added

\* Mutant of stopMonitoring: the timer is left alone.
stopMonitoring_noCancel(m, id) == SetDelete(m, id)

\* LocalModelHealthMonitor.stopMonitoring
stopMonitoring(m, id) ==
    LET deleted == SetDelete(m, id)
    IN IF Len(deleted.monitored) = 0 THEN cancelTimer(deleted) ELSE deleted

\* LocalModelConfigContribution.handleModelHealthChanged: whether the warning
\* is shown. getModelInfo finds the model while it is in modelConfigs, and
\* status.lastChecked is the Date.now() of the check, which is above 0.
handleModelHealthChanged(m, id, isHealthy) == id \in m.models /\ ~isHealthy

\* LocalModelHealthMonitor.updateHealthStatus: set the status, fire the event
\* (the registry forwards it to the contribution). m.notice is what the event
\* handler saw and did.
updateHealthStatus(m, id, isHealthy) ==
    [m EXCEPT !.healthStatus[id] = IF isHealthy THEN "healthy" ELSE "unhealthy",
              !.notice = <<[id |-> id, before |-> m.healthStatus[id], isHealthy |-> isHealthy,
                            registered |-> id \in m.models,
                            warned |-> handleModelHealthChanged(m, id, isHealthy)]>>]

dispose(m, id) == [m EXCEPT !.instances[id] = "disposed"]
deleteFromMaps(m, id) == [m EXCEPT !.models = @ \ {id}]

\* Mutant of unregisterModelStates: the maps are cleared first.
unregisterModelStates_removeFirst(m, id) ==
    LET s1 == deleteFromMaps(m, id)
        s2 == stopMonitoring(s1, id)
        s3 == dispose(s2, id)
    IN <<s1, s2, s3>>

\* The statements of unregisterModel in their order: the state after each.
unregisterModelStates(m, id) ==
    LET s1 == stopMonitoring(m, id)
        s2 == dispose(s1, id)
        s3 == deleteFromMaps(s2, id)
    IN <<s1, s2, s3>>

\* LocalModelRegistry.unregisterModel: synchronous, ends with the event.
unregisterModel ==
    \E id \in LocalIds :
        /\ id \in monitor.models
        /\ LET st == unregisterModelStates(monitor, id)
           IN monitor' = [st[3] EXCEPT !.trace =
                             <<Snapshot("step1", id, st[1]), Snapshot("step2", id, st[2]),
                               Snapshot("step3", id, st[3]),
                               Snapshot("onDidUnregisterModel", id, st[3])>>,
                                       !.notice = <<>>]

\* LocalModelRegistry.registerModel up to its await of checkModelHealth.
registerModel ==
    \E id \in LocalIds :
        /\ id \notin monitor.models
        /\ id \notin monitor.registering
        /\ LET stored == [monitor EXCEPT !.models = @ \cup {id}, !.instances[id] = "live"]
               started == startMonitoring(stored, id)
           IN monitor' = [started EXCEPT !.registering = @ \cup {id}, !.trace = <<>>,
                                          !.notice = <<>>]

\* The health check registerModel awaits is done: the register event fires.
registerModel_checked ==
    \E id \in monitor.registering, isHealthy \in BOOLEAN :
        monitor' = [updateHealthStatus(monitor, id, isHealthy) EXCEPT
                       !.registering = @ \ {id},
                       !.trace = <<Snapshot("onDidChangeModelHealth", id, monitor),
                                   Snapshot("onDidRegisterModel", id, monitor)>>]

\* The check startMonitoring started is done.
checkModelHealth_done ==
    \E id \in monitor.checking, isHealthy \in BOOLEAN :
        monitor' = [updateHealthStatus(monitor, id, isHealthy) EXCEPT
                       !.checking = @ \ {id},
                       !.trace = <<Snapshot("onDidChangeModelHealth", id, monitor)>>]

\* The for-of loop of pass i asks its iterator for the next model: it starts
\* the check of that model, or the loop is over and the pass reschedules the
\* timer when a model is monitored.
PassAdvance(m, i) ==
    IF m.passes[i].pending # <<>>
    THEN [m EXCEPT !.passes[i] = [current |-> Head(@.pending), pending |-> Tail(@.pending)]]
    ELSE LET ended == [m EXCEPT !.passes = [j \in 1..(Len(@) - 1) |->
                                               IF j < i THEN @[j] ELSE @[j + 1]]]
         IN IF Len(ended.monitored) > 0 THEN schedule(ended) ELSE ended

\* The timer fires: RunOnceScheduler clears its token and runs
\* checkAllMonitoredModels.
checkAllMonitoredModels ==
    /\ isScheduled(monitor)
    /\ Len(monitor.passes) < MaxPasses
    /\ LET fired == cancelTimer(monitor)
           begun == [fired EXCEPT !.passes = Append(@, [current |-> "", pending |-> fired.monitored])]
       IN monitor' = [PassAdvance(begun, Len(begun.passes)) EXCEPT !.trace = <<>>, !.notice = <<>>]

\* The check a pass awaits is done: the loop goes on.
checkAllMonitoredModels_checked ==
    \E i \in DOMAIN monitor.passes, isHealthy \in BOOLEAN :
        LET id == monitor.passes[i].current
        IN monitor' = [PassAdvance(updateHealthStatus(monitor, id, isHealthy), i) EXCEPT
                          !.trace = <<Snapshot("onDidChangeModelHealth", id, monitor)>>]

InitMonitor ==
    /\ configurations = <<>>
    /\ defaultModelId = Undefined
    /\ storedConfigurations = <<>>
    /\ storedDefaultModel = Undefined
    /\ secrets = {}
    /\ tasks = [t \in Tasks |-> Idle]
    /\ out = <<>>
    /\ providers = {}
    /\ activeModelId = Undefined
    /\ requests = 0
    /\ calls = 0
    /\ RetryReady
    /\ StreamIdle
    /\ LocalIdle
    /\ ChatIdle
    /\ MonitorIdle
    /\ DiscoveryIdle
    /\ ConvIdle
    /\ RestIdle

NextMonitor ==
    /\ UNCHANGED <<registryVars, managerVars, tasks, calls, out, retryVars, streamVars,
                   local, chat, discovery, conv, restVars>>
    /\ \/ registerModel
       \/ registerModel_checked
       \/ unregisterModel
       \/ checkModelHealth_done
       \/ checkAllMonitoredModels
       \/ checkAllMonitoredModels_checked

SpecMonitor == InitMonitor /\ [][NextMonitor]_vars

\* C15: unregisterModel stops the monitoring of the id, then disposes the
\* instance, then removes the id from the maps and fires the event; and no
\* observer ever finds an id that is absent from the maps monitored or with a
\* live instance.
C15_UnregisterOrder ==
    /\ \A id \in LocalIds :
          id \notin monitor.models =>
              ~SeqHas(monitor.monitored, id) /\ monitor.instances[id] # "live"
    /\ \A i \in DOMAIN monitor.trace :
          LET e == monitor.trace[i]
          IN /\ ~e.registered => (~e.monitored /\ e.disposed)
             /\ e.name = "step1" => (e.registered /\ ~e.monitored /\ ~e.disposed)
             /\ e.name = "step2" => (e.registered /\ ~e.monitored /\ e.disposed)
             /\ e.name = "onDidUnregisterModel" => (~e.registered /\ ~e.monitored /\ e.disposed)

\* C15 witness: a model was unregistered while a periodic pass was checking it.
C15_Witness ==
    /\ Len(monitor.trace) = 4
    /\ monitor.trace[4].name = "onDidUnregisterModel"
    /\ \E i \in DOMAIN monitor.passes : monitor.passes[i].current = monitor.trace[4].id

\* C16: at most one checkAllMonitoredModels run is in progress.
C16_OnePassAtATime == Len(monitor.passes) <= 1

\* C17: whenever no pass is running, the timer is scheduled exactly when at
\* least one model is monitored.
C17_ScheduledIffMonitored ==
    Len(monitor.passes) = 0 => (isScheduled(monitor) <=> Len(monitor.monitored) > 0)

\* C17 witness: a pass has ended with a model still monitored and the timer
\* is set again.
C17_Witness ==
    /\ Len(monitor.passes) = 0
    /\ isScheduled(monitor)
    /\ Len(monitor.trace) = 1 /\ monitor.trace[1].name = "onDidChangeModelHealth"
    /\ monitor.checking = {} /\ monitor.registering = {}
    /\ Len(monitor.monitored) = 2


\* C31: the 'model is no longer available' warning is shown for a registered
\* model exactly when its health goes from healthy to unhealthy: not for a
\* result that repeats an unhealthy state, and not for the first unhealthy
\* result of a model never seen healthy.
C31_WarningOnlyOnTransition ==
    \A i \in DOMAIN monitor.notice :
        LET n == monitor.notice[i]
        IN n.registered => (n.warned <=> (n.before = "healthy" /\ ~n.isHealthy))

\* C35: no health-change event is emitted for an id that is not registered, and
\* the health monitor reports no status for such an id, also when a health
\* check of the id was in flight when it was unregistered.
C35_NoHealthAfterUnregister ==
    /\ \A i \in DOMAIN monitor.notice : monitor.notice[i].registered
    /\ \A id \in LocalIds : id \notin monitor.models => monitor.healthStatus[id] = "none"

\* C36: registerModel fires onDidRegisterModel only for a model that is still
\* registered and whose provider has not been disposed, also when
\* unregisterModel ran while the registration awaited its health check.
C36_NoRegisterEventAfterUnregister ==
    \A i \in DOMAIN monitor.trace :
        LET e == monitor.trace[i]
        IN e.name = "onDidRegisterModel" => (e.registered /\ ~e.disposed)

(***************************************************************************)
(* LocalModelDiscoveryService and LocalModelConfigContribution             *)
(***************************************************************************)
MaxDiscovered == 2      \* models one run of discoverLocalModels lists at most
MaxRuns == 2            \* discoverModels calls that may be in flight at once

\* type === 'local': the configurations of a local server.
IsLocal(id) == ProviderOf(id) = "ollama"
DiscoverableIds == {id \in ModelIds : IsLocal(id)}
\* What discoverLocalModels may return: the models the servers list, in order
\* (a server lists a model once, and the id is made of provider and model).
DiscoveredLists ==
    {list \in UNION {[1..n -> DiscoverableIds] : n \in 0..MaxDiscovered} :
        \A i, j \in DOMAIN list : list[i] = list[j] => i = j}

Range(seq) == {seq[i] : i \in DOMAIN seq}
LocalConfigIds(cfgs) == {cfgs[i].id : i \in {j \in DOMAIN cfgs : IsLocal(cfgs[j].id)}}

\* Mutant of MarkNew: a discovered id is not remembered.
RECURSIVE MarkNew_forget(_, _)
MarkNew_forget(list, known) ==
    IF list = <<>> THEN [result |-> <<>>, known |-> known]
    ELSE LET rest == MarkNew_forget(Tail(list), known)
         IN [result |-> <<[id |-> Head(list), isNew |-> Head(list) \notin known]>> \o rest.result,
             known |-> rest.known]

\* The loop of discoverModels: isNew = !knownModelIds.has(id), then add the id.
RECURSIVE MarkNew(_, _)
MarkNew(list, known) ==
    IF list = <<>> THEN [result |-> <<>>, known |-> known]
    ELSE LET rest == MarkNew(Tail(list), known \cup {Head(list)})
         IN [result |-> <<[id |-> Head(list), isNew |-> Head(list) \notin known]>> \o rest.result,
             known |-> rest.known]

NewIds(result) == {result[i].id : i \in {j \in DOMAIN result : result[j].isNew}}
ResultIds(result) == {result[i].id : i \in DOMAIN result}

\* The two most recent results, oldest first.
Remember(results, r) == IF Len(results) < 2 THEN Append(results, r) ELSE <<results[2], r>>

RemoveAt(seq, i) == [j \in 1..(Len(seq) - 1) |-> IF j < i THEN seq[j] ELSE seq[j + 1]]

\* discoverModels once discoverLocalModels has returned `list`: the state of
\* the service and the result handed back.
DiscoverModelsReturn(d, i, list) ==
    LET marked == MarkNew(list, d.known)
    IN [d EXCEPT !.known = marked.known,
                 !.runs = RemoveAt(@, i),
                 !.results = Remember(@, [seen |-> list, result |-> marked.result])]

\* A caller asks for a discovery.
discoverModels ==
    /\ Len(discovery.runs) < MaxRuns
    /\ discovery' = [discovery EXCEPT !.runs = Append(@, "discoverModels")]
    /\ UNCHANGED <<registryVars, tasks, calls>>
    /\ out' = <<>>

\* The discovery a caller asked for returns.
discoverModels_done ==
    /\ \E i \in DOMAIN discovery.runs, list \in DiscoveredLists :
          /\ discovery.runs[i] = "discoverModels"
          /\ discovery' = DiscoverModelsReturn(discovery, i, list)
          /\ out' = IF list # <<>> THEN <<Event("onDidDiscoverModels", "")>> ELSE <<>>
    /\ UNCHANGED <<registryVars, tasks, calls>>

\* notifyNewModels: a notification whose action adds the models.
notifyNewModels(d, ids) == [d EXCEPT !.suggestions = @ \cup {ids}]

\* Mutant of runDiscovery_done: the new models are added to the registry.
runDiscovery_done_autoAdd ==
    /\ \E i \in DOMAIN discovery.runs, list \in DiscoveredLists :
          /\ discovery.runs[i] = "runDiscovery"
          /\ LET returned == DiscoverModelsReturn(discovery, i, list)
                 newModels == NewIds(returned.results[Len(returned.results)].result)
             IN /\ discovery' = [returned EXCEPT !.timer = returned.active]
                /\ configurations' =
                      IF newModels = {} THEN configurations
                      ELSE MapSet(configurations,
                                  Config(CHOOSE id \in newModels : TRUE, FALSE, Undefined))
          /\ out' = IF list # <<>> THEN <<Event("onDidDiscoverModels", "")>> ELSE <<>>
    /\ UNCHANGED <<defaultModelId, storedConfigurations, storedDefaultModel, secrets, tasks, calls>>

\* The discovery of an automatic run returns: notify the new models, then
\* schedule the next run while automatic discovery is active.
runDiscovery_done ==
    /\ \E i \in DOMAIN discovery.runs, list \in DiscoveredLists :
          /\ discovery.runs[i] = "runDiscovery"
          /\ LET returned == DiscoverModelsReturn(discovery, i, list)
                 newModels == NewIds(returned.results[Len(returned.results)].result)
                 notified == IF newModels # {} THEN notifyNewModels(returned, newModels)
                             ELSE returned
             IN discovery' = [notified EXCEPT !.timer = IF notified.active THEN TRUE ELSE @]
          /\ out' = IF list # <<>> THEN <<Event("onDidDiscoverModels", "")>> ELSE <<>>
    /\ UNCHANGED <<registryVars, tasks, calls>>

\* The start-up discovery returns: suggest what was discovered when no local
\* configuration exists.
runInitialDiscovery_done ==
    /\ \E i \in DOMAIN discovery.runs, list \in DiscoveredLists :
          /\ discovery.runs[i] = "runInitialDiscovery"
          /\ LET returned == DiscoverModelsReturn(discovery, i, list)
             IN discovery' = IF LocalConfigIds(configurations) = {} /\ Len(list) > 0
                             THEN notifyNewModels(returned, Range(list))
                             ELSE returned
          /\ out' = IF list # <<>> THEN <<Event("onDidDiscoverModels", "")>> ELSE <<>>
    /\ UNCHANGED <<registryVars, tasks, calls>>

\* The discovery timer fires: runDiscovery.
runDiscovery ==
    /\ discovery.timer
    /\ Len(discovery.runs) < MaxRuns
    /\ discovery' = [discovery EXCEPT !.timer = FALSE, !.runs = Append(@, "runDiscovery")]
    /\ out' = <<>>
    /\ UNCHANGED <<registryVars, tasks, calls>>

startAutomaticDiscovery ==
    /\ ~discovery.active
    /\ Len(discovery.runs) < MaxRuns
    /\ discovery' = [discovery EXCEPT !.active = TRUE, !.runs = Append(@, "runDiscovery")]
    /\ out' = <<>>
    /\ UNCHANGED <<registryVars, tasks, calls>>

stopAutomaticDiscovery ==
    /\ discovery.active
    /\ discovery' = [discovery EXCEPT !.active = FALSE, !.timer = FALSE]
    /\ out' = <<>>
    /\ UNCHANGED <<registryVars, tasks, calls>>

\* Some order of the ids of a suggestion (the order of the discovered list).
SeqOf(ids) == CHOOSE q \in [1..Cardinality(ids) -> ids] : Range(q) = ids

\* The user triggers the add action of a notification.
notification_run ==
    /\ discovery.adding = <<>>
    /\ \A t \in Tasks : tasks[t] = Idle
    /\ \E ids \in discovery.suggestions :
          discovery' = [discovery EXCEPT !.suggestions = @ \ {ids}, !.adding = SeqOf(ids)]
    /\ out' = <<>>
    /\ UNCHANGED <<registryVars, tasks, calls>>

\* addModelToConfiguration / addAllModelsToConfiguration / addDiscoveredModels:
\* await this.modelConfigService.addConfiguration(config), one after the other.
addModelToConfiguration(t) ==
    /\ discovery.adding # <<>>
    /\ \A u \in Tasks : tasks[u] = Idle
    /\ Free(t)
    /\ \E fields \in Fields, probeOk \in BOOLEAN :
          tasks' = [tasks EXCEPT ![t] =
              Validating("addConfiguration", Config(Head(discovery.adding), FALSE, Undefined),
                         Undefined, validateConfiguration(fields, Undefined, secrets, probeOk))]
    /\ discovery' = [discovery EXCEPT !.adding = Tail(@)]
    /\ out' = <<>>
    /\ UNCHANGED <<registryVars, calls>>

\* The contribution has been constructed over the registry: automatic
\* discovery is started and the start-up discovery is under way.
InitDiscovery ==
    /\ configurations \in ChatRegistries
    /\ defaultModelId = (IF configurations = <<>> THEN Undefined ELSE configurations[1].id)
    /\ storedConfigurations = configurations
    /\ storedDefaultModel = defaultModelId
    /\ secrets = {}
    /\ tasks = [t \in Tasks |-> Idle]
    /\ out = <<>>
    /\ providers = {}
    /\ activeModelId = Undefined
    /\ requests = 0
    /\ calls = 0
    /\ RetryReady
    /\ StreamIdle
    /\ LocalIdle
    /\ ChatIdle
    /\ MonitorIdle
    /\ ConvIdle
    /\ RestIdle
    /\ discovery = [known |-> LocalConfigIds(configurations), active |-> TRUE, timer |-> FALSE,
                    runs |-> <<"runDiscovery", "runInitialDiscovery">>,
                    suggestions |-> {}, adding |-> <<>>, results |-> <<>>]

NextDiscovery ==
    /\ UNCHANGED <<retryVars, streamVars, local, chat, monitor, conv, restVars>>
    /\ \/ discoverModels /\ UNCHANGED managerVars
       \/ discoverModels_done /\ UNCHANGED managerVars
       \/ runDiscovery /\ UNCHANGED managerVars
       \/ runDiscovery_done /\ UNCHANGED managerVars
       \/ runInitialDiscovery_done /\ UNCHANGED managerVars
       \/ startAutomaticDiscovery /\ UNCHANGED managerVars
       \/ stopAutomaticDiscovery /\ UNCHANGED managerVars
       \/ notification_run /\ UNCHANGED managerVars
       \/ \E t \in Tasks : addModelToConfiguration(t) /\ UNCHANGED managerVars
       \/ \E t \in Tasks : addConfiguration_validated(t) /\ UNCHANGED discovery
       \/ \E t \in Tasks : addConfiguration_saved(t) /\ UNCHANGED discovery
       \/ \E t \in Tasks : setDefaultModel_saved(t) /\ UNCHANGED discovery

SpecDiscovery == InitDiscovery /\ [][NextDiscovery]_vars

\* C18: when the two most recent discoverModels runs were handed the same
\* models by the servers, the later one returned the same set of ids as the
\* earlier one, every entry with isNew = false.
C18_SecondRunNothingNew ==
    (Len(discovery.results) = 2 /\ discovery.results[1].seen = discovery.results[2].seen) =>
        /\ ResultIds(discovery.results[2].result) = ResultIds(discovery.results[1].result)
        /\ NewIds(discovery.results[2].result) = {}

\* C18 witness: the first of two runs over the same models found a new one.
C18_Witness ==
    /\ Len(discovery.results) = 2
    /\ discovery.results[1].seen = discovery.results[2].seen
    /\ NewIds(discovery.results[1].result) # {}

\* C19: a step in which a discovery is started or returns (by a caller, by the
\* timer or at start-up) leaves the configuration registry as it is and starts
\* no addConfiguration call; such a call starts only for a model of a
\* notification whose add action the user has triggered.
C19_DiscoveryNeverAdds ==
    [][/\ (discovery'.runs # discovery.runs \/ discovery'.known # discovery.known
             \/ discovery'.timer # discovery.timer \/ discovery'.active # discovery.active)
          => (UNCHANGED <<registryVars, tasks>> /\ discovery'.adding = discovery.adding)
       /\ (\E t \in Tasks : tasks[t] = Idle /\ tasks'[t] # Idle)
          => (discovery.adding # <<>> /\ discovery'.adding = Tail(discovery.adding))
       /\ (discovery'.adding # discovery.adding /\ discovery.adding = <<>>)
          => (\E ids \in discovery.suggestions :
                 Range(discovery'.adding) = ids /\ ids \notin discovery'.suggestions)
       /\ configurations' # configurations
          => \E t \in Tasks : tasks[t].op = "addConfiguration" /\ StepOf(t)]_vars

\* C19 witness: an automatic run has found a model the registry does not
\* hold, and it waits as a suggestion.
C19_Witness ==
    /\ discovery.suggestions # {}
    /\ \E id \in discovery.known : ~MapHas(configurations, id)
    /\ discovery.timer
    /\ \A t \in Tasks : tasks[t] = Idle


\* C40: every model id that the start-up discovery or an automatic run
\* discovers while it was unknown is, in that step, part of a new-model
\* suggestion shown to the user.
C40_NewModelsAreSuggested ==
    [][(runDiscovery_done \/ runInitialDiscovery_done) =>
          (discovery'.known \ discovery.known) \subseteq UNION discovery'.suggestions]_vars

(***************************************************************************)
(* AIService.executeConversationFlow: the memory of one conversation       *)
(***************************************************************************)
MaxExchanges == 3       \* executeConversationFlow calls on the conversation
MaxHistoryArg == 3      \* largest context.maxHistory passed (0: none passed)
DefaultMaxHistory == 10

Message(role, content) == [role |-> role, content |-> content]
\* The system prompt has content 0; the n-th message of the user and the
\* reply to it have content n.
SystemPrompt == Message("system", 0)

\* array.slice(-n)
SliceLast(seq, n) ==
    IF n >= Len(seq) THEN seq ELSE SubSeq(seq, Len(seq) - n + 1, Len(seq))

\* context?.maxHistory || 10
MaxHistoryOf(arg) == IF arg = 0 THEN DefaultMaxHistory ELSE arg

\* history = [history[0], ...history.slice(-(maxHistory))] when too long.
Trimmed(history, maxHistory) ==
    IF Len(history) > maxHistory + 1
    THEN <<history[1]>> \o SliceLast(history, maxHistory)
    ELSE history

\* The arrays of the conversation are objects: conv.heap[n] is the array call n
\* created (empty when it created none or nothing holds it any more),
\* conv.stored the array in the map (0: the map has no entry), and each call in
\* flight holds the array it will push the reply onto.
MaxOverlap == 2         \* executeConversationFlow calls in flight at once

\* Arrays nothing refers to any more are dropped.
Collect(heap, stored, flows) ==
    [r \in 1..Len(heap) |->
        IF r = stored \/ \E i \in 1..Len(flows) : flows[i].ref = r THEN heap[r] ELSE <<>>]

\* getConversationHistory: this.conversationMemory.get(conversationId) || []
getConversationHistory(c) == IF c.stored = 0 THEN <<>> ELSE c.heap[c.stored]

\* executeConversationFlow up to `await this.chat(history)`. The array taken
\* from the map is the stored one: the pushes before the trim are seen in the
\* map at once, and by every other call that holds the array.
executeConversationFlow ==
    /\ Len(conv.calls) < MaxOverlap
    /\ conv.sent < MaxExchanges
    /\ \E arg \in 0..MaxHistoryArg :
          LET maxHistory == MaxHistoryOf(arg)
              n == conv.sent + 1
              before == getConversationHistory(conv)
              started == IF Len(before) = 0 THEN <<SystemPrompt>> ELSE before
              pushed == Append(started, Message("user", n))
              history == Trimmed(pushed, maxHistory)
              fresh == conv.stored = 0 \/ history # pushed
              grown == Append(conv.heap, IF fresh THEN history ELSE <<>>)
              heap == IF conv.stored = 0 THEN grown
                      ELSE [grown EXCEPT ![conv.stored] = pushed]
              flows == Append([i \in 1..Len(conv.calls) |->
                                  [conv.calls[i] EXCEPT !.overlapped = @ \cup {n}]],
                              [ref |-> IF fresh THEN n ELSE conv.stored,
                               before |-> before, maxHistory |-> maxHistory, message |-> n,
                               overlapped |-> {conv.calls[i].message : i \in 1..Len(conv.calls)},
                               plain |-> history = pushed])
          IN conv' = [conv EXCEPT
                 !.heap = heap,
                 !.sent = n,
                 !.calls = flows,
                 !.done = Append(@, "pending")]

\* chat resolves for the k-th call in flight: the reply is pushed onto the
\* array the call holds and that array is stored.
chat_resolves(k) ==
    /\ k \in 1..Len(conv.calls)
    /\ LET c == conv.calls[k]
           flows == RemoveAt(conv.calls, k)
           history == Append(conv.heap[c.ref], Message("assistant", c.message))
       IN conv' = [conv EXCEPT
              !.heap = Collect([conv.heap EXCEPT ![c.ref] = history], c.ref, flows),
              !.stored = c.ref,
              !.calls = flows,
              !.done = [@ EXCEPT ![c.message] = IF c.plain THEN "resolved" ELSE "trimmed"],
              !.last = <<[before |-> c.before, maxHistory |-> c.maxHistory,
                          message |-> c.message, after |-> history,
                          overlapped |-> c.overlapped, plain |-> c.plain]>>]

\* chat rejects: executeConversationFlow rejects without storing.
chat_rejects(k) ==
    /\ k \in 1..Len(conv.calls)
    /\ LET flows == RemoveAt(conv.calls, k)
       IN conv' = [conv EXCEPT
              !.heap = Collect(conv.heap, conv.stored, flows),
              !.calls = flows,
              !.done = [@ EXCEPT ![conv.calls[k].message] = "rejected"]]

\* this.conversationMemory.delete(conversationId)
clearConversationMemory ==
    /\ conv.stored # 0
    /\ conv' = [conv EXCEPT
           !.heap = Collect(conv.heap, 0, conv.calls),
           !.stored = 0,
           !.calls = [i \in 1..Len(conv.calls) |-> [conv.calls[i] EXCEPT !.plain = FALSE]],
           !.done = [n \in 1..Len(@) |-> IF @[n] = "resolved" THEN "cleared" ELSE @[n]]]

InitConversation ==
    /\ InitRegistry
    /\ ConvIdle
    /\ RestIdle

NextConversation ==
    /\ UNCHANGED <<registryVars, tasks, out, managerVars, calls, retryVars, streamVars,
                   local, chat, monitor, discovery, restVars>>
    /\ \/ executeConversationFlow
       \/ \E k \in 1..MaxOverlap : chat_resolves(k)
       \/ \E k \in 1..MaxOverlap : chat_rejects(k)
       \/ clearConversationMemory

SpecConversation == InitConversation /\ [][NextConversation]_vars

\* C20: a flow with maxHistory = 2, overlapped by no other, that began on a stored conversation of the
\* system message and 4 earlier messages has stored, when it completes, the
\* system message, the 2 most recent earlier messages, the new message of the
\* user and the reply to it.
C20_KeepsTwoPriorTurns ==
    \A i \in DOMAIN conv.last :
        LET l == conv.last[i]
        IN (l.overlapped = {} /\ l.maxHistory = 2 /\ Len(l.before) = 5
            /\ l.before[1] = SystemPrompt) =>
              l.after = <<l.before[1], l.before[4], l.before[5],
                          Message("user", l.message), Message("assistant", l.message)>>

\* C38: when the provider call inside executeConversationFlow fails, the
\* history stored for the conversation does not contain the user message of the
\* failed call; when no other call overlapped it and the memory was not cleared
\* meanwhile, the history is the one from before the call.
C38_FailedFlowLeavesHistory ==
    [][\A k \in 1..MaxOverlap :
          (chat_rejects(k) /\ conv.calls[k].overlapped = {}) =>
              /\ ~SeqHas(getConversationHistory(conv'), Message("user", conv.calls[k].message))
              /\ conv.stored # 0 => getConversationHistory(conv') = conv.calls[k].before]_vars

\* The exchange of call n stands in the history, the reply right after the message.
HasExchange(history, n) ==
    \E i \in 1..(Len(history) - 1) :
        history[i] = Message("user", n) /\ history[i + 1] = Message("assistant", n)

\* C39: two overlapping executeConversationFlow calls on the conversation, the
\* only two made, neither trimming and with no clear meanwhile: once both have
\* resolved, the stored history contains both exchanges, each user message
\* immediately followed by its own reply.
C39_OverlappingFlowsKeepBothExchanges ==
    \A i \in DOMAIN conv.last :
        LET l == conv.last[i]
        IN (conv.sent = 2 /\ l.overlapped # {} /\ conv.done = <<"resolved", "resolved">>) =>
              /\ HasExchange(getConversationHistory(conv), 1)
              /\ HasExchange(getConversationHistory(conv), 2)

(***************************************************************************)
(* AIService.executeBatchWorkflow                                          *)
(***************************************************************************)
MaxItems == 5           \* items handed to executeBatchWorkflow at most
MaxBatchSize == 3       \* largest batchSize passed

Settled == {"resolved", "rejected"}
\* items.slice(i, i + batchSize): the (1-based) items of the window at i.
Window(i, batchSize, n) == {k \in 1..n : i < k /\ k <= i + batchSize}
Running(status) == {k \in DOMAIN status : status[k] = "running"}

\* Mutant of PromiseAll: settles with the first promise that does.
PromiseAll_race(status, window) ==
    IF \E k \in window : status[k] = "rejected" THEN "rejected"
    ELSE IF window = {} \/ \E k \in window : status[k] = "resolved" THEN "resolved"
    ELSE "pending"

\* Promise.all over the promises of a window.
PromiseAll(status, window) ==
    IF \E k \in window : status[k] = "rejected" THEN "rejected"
    ELSE IF \A k \in window : status[k] = "resolved" THEN "resolved"
    ELSE "pending"

\* batch.map(processor): every item of the window is handed to the processor.
\* A processor that throws at once (at item `throws`) ends the map there.
StartWindow(status, window, throws) ==
    [k \in DOMAIN status |->
        IF k \in window /\ (throws = 0 \/ k < throws) THEN "running" ELSE status[k]]

\* The loop from its top at index i: leave it, or start the window at i and
\* await Promise.all.
LoopAt(b, i, throws) ==
    LET n == Len(b.status)
        window == Window(i, b.batchSize, n)
    IN IF i >= n THEN [b EXCEPT !.pc = "resolved", !.i = i]
       ELSE IF throws \in window
       THEN [b EXCEPT !.pc = "rejected", !.i = i,
                      !.status = StartWindow(b.status, window, throws)]
       ELSE [b EXCEPT !.pc = "window", !.i = i,
                      !.status = StartWindow(b.status, window, 0)]

\* After a settlement: what the awaited Promise.all makes of the call.
Awaited(b) ==
    LET n == Len(b.status)
        all == PromiseAll(b.status, Window(b.i, b.batchSize, n))
    IN IF b.pc # "window" \/ all = "pending" THEN b
       ELSE IF all = "rejected" THEN [b EXCEPT !.pc = "rejected"]
       ELSE IF b.i + b.batchSize < n THEN [b EXCEPT !.pc = "sleep"]
       ELSE LoopAt(b, b.i + b.batchSize, 0)

executeBatchWorkflow ==
    /\ batch.pc = "idle"
    /\ \E n \in 0..MaxItems, batchSize \in 0..MaxBatchSize, throws \in 0..MaxItems :
          /\ throws <= n
          /\ batch' = Awaited(LoopAt([pc |-> "idle", batchSize |-> batchSize, i |-> 0,
                                      status |-> [k \in 1..n |-> "idle"]], 0, throws))

processor_resolves ==
    \E k \in Running(batch.status) :
        batch' = Awaited([batch EXCEPT !.status[k] = "resolved"])

processor_rejects ==
    \E k \in Running(batch.status) :
        batch' = Awaited([batch EXCEPT !.status[k] = "rejected"])

\* The delay between two windows has elapsed: i += batchSize, next window.
sleep_elapsed ==
    /\ batch.pc = "sleep"
    /\ \E throws \in 0..MaxItems :
          /\ throws <= Len(batch.status)
          /\ batch' = Awaited(LoopAt(batch, batch.i + batch.batchSize, throws))

NextBatch ==
    /\ UNCHANGED <<registryVars, tasks, out, managerVars, calls, retryVars, streamVars,
                   local, chat, monitor, discovery, conv, vstore, react, stores, advanced, importing>>
    /\ \/ executeBatchWorkflow
       \/ processor_resolves
       \/ processor_rejects
       \/ sleep_elapsed

SpecBatch == InitRegistry /\ [][NextBatch]_vars

\* C21: at most batchSize processor invocations are in flight, and an item
\* that has been started belongs to a window all of whose predecessors'
\* items have settled.
C21_WindowBounded ==
    /\ Cardinality(Running(batch.status)) <= batch.batchSize
    /\ \A k \in DOMAIN batch.status :
          batch.status[k] # "idle" =>
              \A j \in DOMAIN batch.status :
                  (batch.batchSize > 0 /\ (j - 1) \div batch.batchSize < (k - 1) \div batch.batchSize)
                      => batch.status[j] \in Settled

\* C21 witness: a full second window is in flight.
C21_Witness ==
    /\ batch.pc = "window"
    /\ batch.i > 0
    /\ batch.batchSize >= 2
    /\ Cardinality(Running(batch.status)) = batch.batchSize

(***************************************************************************)
(* MemoryVectorStore: hybridSearch and cosineSimilarity                    *)
(***************************************************************************)
MaxDocs == 3            \* documents ever added to the store
MaxWeight == 2          \* largest weight passed to hybridSearch
HybridMaxResults == 100
\* Scores are in tenths: the mock score of a text match is 0.8.
TextMatchScore == 8
\* The cosine similarity (in tenths) of a document to the embedding asked for.
Similarities == {0, 5, 6}

Result(id, score) == [id |-> id, score |-> score]
Ids(results) == {results[i].id : i \in DOMAIN results}
ScoreOf(results, id) == results[CHOOSE i \in DOMAIN results : results[i].id = id].score
SliceFirst(seq, n) == IF Len(seq) <= n THEN seq ELSE SubSeq(seq, 1, n)

\* Array.prototype.sort((a, b) => b.score - a.score): stable, descending.
InsertDesc(sorted, x) ==
    LET before == {i \in DOMAIN sorted : sorted[i].score >= x.score}
        k == IF before = {} THEN 0 ELSE CHOOSE i \in before : \A j \in before : j <= i
    IN SubSeq(sorted, 1, k) \o <<x>> \o SubSeq(sorted, k + 1, Len(sorted))

RECURSIVE SortDesc(_)
SortDesc(seq) ==
    IF seq = <<>> THEN <<>>
    ELSE InsertDesc(SortDesc(SubSeq(seq, 1, Len(seq) - 1)), seq[Len(seq)])

\* search: the documents whose content includes the query, in map order.
search(documents, maxResults) ==
    LET matches == SelectSeq(documents, LAMBDA d : d.match)
    IN SliceFirst([i \in DOMAIN matches |-> Result(matches[i].id, TextMatchScore)], maxResults)

\* similaritySearch: every document, by descending similarity.
similaritySearch(documents, topK) ==
    SliceFirst(SortDesc([i \in DOMAIN documents |-> Result(documents[i].id, documents[i].sim)]),
               topK)

\* textResults.forEach: score *= weights.text; combined.set(id, result)
RECURSIVE CombineText(_, _, _)
CombineText(combined, textResults, weights) ==
    IF textResults = <<>> THEN combined
    ELSE LET r == Head(textResults)
         IN CombineText(MapSet(combined, Result(r.id, r.score * weights.text)),
                        Tail(textResults), weights)

\* Mutant of CombineSemantic: a semantic result replaces the text result.
RECURSIVE CombineSemantic_replace(_, _, _)
CombineSemantic_replace(combined, semanticResults, weights) ==
    IF semanticResults = <<>> THEN combined
    ELSE LET r == Head(semanticResults)
         IN CombineSemantic_replace(MapSet(combined, Result(r.id, r.score * weights.semantic)),
                                    Tail(semanticResults), weights)

\* semanticResults.forEach: add to the existing score, or set a new entry.
RECURSIVE CombineSemantic(_, _, _)
CombineSemantic(combined, semanticResults, weights) ==
    IF semanticResults = <<>> THEN combined
    ELSE LET r == Head(semanticResults)
             next == IF MapHas(combined, r.id)
                     THEN MapSet(combined,
                                 Result(r.id, MapGet(combined, r.id).score + r.score * weights.semantic))
                     ELSE MapSet(combined, Result(r.id, r.score * weights.semantic))
         IN CombineSemantic(next, Tail(semanticResults), weights)

Weights == [text : 0..MaxWeight, semantic : 0..MaxWeight]

\* addDocuments with one document.
addDocuments ==
    /\ vstore.nextId <= MaxDocs
    /\ \E match \in BOOLEAN, sim \in Similarities :
          vstore' = [vstore EXCEPT
              !.documents = Append(@, [id |-> vstore.nextId, match |-> match, sim |-> sim]),
              !.nextId = @ + 1]

deleteDocument ==
    \E i \in DOMAIN vstore.documents :
        vstore' = [vstore EXCEPT !.documents = MapDelete(@, vstore.documents[i].id)]

\* hybridSearch up to the return of `await this.search(...)`.
hybridSearch ==
    /\ vstore.call = <<>>
    /\ \E weights \in Weights :
          vstore' = [vstore EXCEPT
              !.last = <<>>,
              !.call = <<[weights |-> weights,
                          textResults |-> search(vstore.documents, HybridMaxResults)]>>]

\* hybridSearch from `await this.similaritySearch(...)` to its return.
hybridSearch_combined ==
    /\ vstore.call # <<>>
    /\ LET c == vstore.call[1]
           semanticResults == similaritySearch(vstore.documents, HybridMaxResults)
           combined == CombineSemantic(CombineText(<<>>, c.textResults, c.weights),
                                       semanticResults, c.weights)
       IN vstore' = [vstore EXCEPT
              !.call = <<>>,
              !.last = <<[weights |-> c.weights, textResults |-> c.textResults,
                          semanticResults |-> semanticResults,
                          results |-> SortDesc(combined)]>>]

NextVector ==
    /\ UNCHANGED <<registryVars, tasks, out, managerVars, calls, retryVars, streamVars,
                   local, chat, monitor, discovery, conv, batch, react, stores, advanced, importing>>
    /\ \/ addDocuments
       \/ deleteDocument
       \/ hybridSearch
       \/ hybridSearch_combined

SpecVector == InitRegistry /\ [][NextVector]_vars

\* The score the combination is to give a document id.
HybridScore(l, id) ==
    IF id \in Ids(l.textResults) /\ id \in Ids(l.semanticResults)
    THEN ScoreOf(l.textResults, id) * l.weights.text
         + ScoreOf(l.semanticResults, id) * l.weights.semantic
    ELSE IF id \in Ids(l.textResults) THEN ScoreOf(l.textResults, id) * l.weights.text
    ELSE ScoreOf(l.semanticResults, id) * l.weights.semantic

\* C22: hybridSearch returns one result per id of the text or the semantic
\* results, scored by the weighted sum (or the one weighted score present),
\* in descending order of score.
C22_HybridScores ==
    \A n \in DOMAIN vstore.last :
        LET l == vstore.last[n]
        IN /\ Ids(l.results) = Ids(l.textResults) \cup Ids(l.semanticResults)
           /\ Len(l.results) = Cardinality(Ids(l.results))
           /\ \A i \in DOMAIN l.results : l.results[i].score = HybridScore(l, l.results[i].id)
           /\ \A i, j \in DOMAIN l.results : i < j => l.results[i].score >= l.results[j].score

\* C22 witness: a search with non-zero weights whose results hold an id of
\* both sets, one of the text set only and one of the semantic set only.
C22_Witness ==
    \E n \in DOMAIN vstore.last :
        LET l == vstore.last[n]
        IN /\ l.weights.text > 0 /\ l.weights.semantic > 0
           /\ Ids(l.textResults) \cap Ids(l.semanticResults) # {}
           /\ Ids(l.textResults) \ Ids(l.semanticResults) # {}
           /\ Ids(l.semanticResults) \ Ids(l.textResults) # {}
           /\ Len(l.results) = 3

(***************************************************************************)
(* cosineSimilarity over doubles. A double is an integer of magnitude at   *)
(* most MaxFinite (standing for Number.MAX_VALUE), Infinity, -Infinity or  *)
(* NaN; an operation whose exact result exceeds MaxFinite gives Infinity.  *)
(***************************************************************************)
MaxFinite == 8
MaxDim == 2             \* longest vector compared
Infinity == MaxFinite + 1
NegInfinity == 0 - Infinity
NaN == MaxFinite + 2
\* The finite doubles a vector is made of.
Components == {-1, 0, 1, 2, MaxFinite}
Vectors == UNION {[1..n -> Components] : n \in 0..MaxDim}

Round(x) == IF x > MaxFinite THEN Infinity ELSE IF x < 0 - MaxFinite THEN NegInfinity ELSE x
IsInfinite(x) == x = Infinity \/ x = NegInfinity
Sign(x) == IF x > 0 THEN 1 ELSE IF x < 0 THEN -1 ELSE 0

\* x * y
Times(x, y) ==
    IF x = NaN \/ y = NaN THEN NaN
    ELSE IF IsInfinite(x) \/ IsInfinite(y)
    THEN (IF x = 0 \/ y = 0 THEN NaN ELSE IF Sign(x) * Sign(y) > 0 THEN Infinity ELSE NegInfinity)
    ELSE Round(x * y)

\* x + y
Plus(x, y) ==
    IF x = NaN \/ y = NaN THEN NaN
    ELSE IF IsInfinite(x) /\ IsInfinite(y) THEN (IF x = y THEN x ELSE NaN)
    ELSE IF IsInfinite(x) THEN x
    ELSE IF IsInfinite(y) THEN y
    ELSE Round(x + y)

\* The sum over i < n of a[i] * b[i], as the loop accumulates it.
RECURSIVE DotProduct(_, _, _)
DotProduct(a, b, n) ==
    IF n = 0 THEN 0 ELSE Plus(DotProduct(a, b, n - 1), Times(a[n], b[n]))

\* dotProduct / (Math.sqrt(normA) * Math.sqrt(normB)): a number is given as
\* the pair of its numerator and the square of its denominator.
Quotient(dot, normA, normB) ==
    IF dot = NaN \/ normA = NaN \/ normB = NaN THEN [kind |-> "NaN", dot |-> 0, den2 |-> 1]
    ELSE IF IsInfinite(normA) \/ IsInfinite(normB)
    THEN (IF normA = 0 \/ normB = 0 \/ IsInfinite(dot)
          THEN [kind |-> "NaN", dot |-> 0, den2 |-> 1]
          ELSE [kind |-> "number", dot |-> 0, den2 |-> 1])
    ELSE IF normA * normB = 0
    THEN (IF dot = 0 THEN [kind |-> "NaN", dot |-> 0, den2 |-> 1]
          ELSE [kind |-> "Infinity", dot |-> Sign(dot), den2 |-> 1])
    ELSE IF IsInfinite(dot) THEN [kind |-> "Infinity", dot |-> Sign(dot), den2 |-> 1]
    ELSE [kind |-> "number", dot |-> dot, den2 |-> normA * normB]

cosineSimilarity(a, b) ==
    IF Len(a) # Len(b) THEN [kind |-> "number", dot |-> 0, den2 |-> 1]
    ELSE Quotient(DotProduct(a, b, Len(a)), DotProduct(a, a, Len(a)), DotProduct(b, b, Len(b)))

\* The store compares two vectors.
compare ==
    \E a \in Vectors, b \in Vectors :
        vstore' = [vstore EXCEPT !.cos = <<[a |-> a, b |-> b, similarity |-> cosineSimilarity(a, b)]>>]

NextCosine ==
    /\ UNCHANGED <<registryVars, tasks, out, managerVars, calls, retryVars, streamVars,
                   local, chat, monitor, discovery, conv, batch, react, stores, advanced, importing>>
    /\ compare

SpecCosine == InitRegistry /\ [][NextCosine]_vars

IsZero(r) == r.kind = "number" /\ r.dot = 0
IsOne(r) == r.kind = "number" /\ r.dot > 0 /\ r.dot * r.dot = r.den2

\* C23: the similarity of two vectors of different lengths is 0, and that of
\* a non-zero vector with itself is 1.
C23_SelfSimilarityIsOne ==
    \A n \in DOMAIN vstore.cos :
        LET c == vstore.cos[n]
        IN /\ Len(c.a) # Len(c.b) => IsZero(c.similarity)
           /\ (c.a = c.b /\ \E i \in DOMAIN c.a : c.a[i] # 0) => IsOne(c.similarity)

(***************************************************************************)
(* AIServiceManager.reactAgent                                             *)
(***************************************************************************)
ReactMaxIterations == 10

\* What parseReActResponse finds in a response: no ACTION, an ACTION whose
\* type can be written into a string, or one whose type cannot (JSON such as
\* {"type": {"toString": 1}}); and whether FINAL_ANSWER is there.
ActionsParsed == {"none", "action", "unprintable"}
Responses == [action : ActionsParsed, final : BOOLEAN]

\* Mutant of LoopCondition: one iteration more.
LoopCondition_inclusive(iteration, cancelled) ==
    iteration <= ReactMaxIterations /\ ~cancelled

\* while (iteration < maxIterations && !token?.isCancellationRequested)
LoopCondition(iteration, cancelled) ==
    iteration < ReactMaxIterations /\ ~cancelled

\* The loop from its top: another round, or the final response.
ReactLoop(r) ==
    IF LoopCondition(r.iteration, r.cancelled)
    THEN [r EXCEPT !.pc = "round"]
    ELSE [r EXCEPT !.pc = "resolved"]

\* if (!shouldContinue) break; iteration++
AfterAction(r) ==
    IF ~r.shouldContinue THEN [r EXCEPT !.pc = "resolved"]
    ELSE ReactLoop([r EXCEPT !.iteration = @ + 1])

\* reactAgent with a provider and a context at hand, up to the first round.
reactAgent ==
    /\ react.pc = "idle"
    /\ \E cancelled \in BOOLEAN :
          react' = ReactLoop([react EXCEPT !.cancelled = cancelled])

\* executeWithRetry resolves with a response; it is parsed.
round_resolves ==
    /\ react.pc = "round"
    /\ \E response \in Responses :
          LET r == [react EXCEPT !.rounds = @ + 1,
                                 !.finalRound = IF response.final /\ @ = 0 THEN react.rounds + 1 ELSE @,
                                 !.shouldContinue = ~response.final]
          IN react' = IF response.action = "none" THEN AfterAction(r)
                      ELSE [r EXCEPT !.pc = response.action]

\* executeWithRetry rejects: the catch block rethrows the classified error.
round_rejects ==
    /\ react.pc = "round"
    /\ react' = [react EXCEPT !.rounds = @ + 1, !.pc = "rejected", !.cause = "round"]

\* executeReActAction resolves with its observation (success: true).
executeReActAction ==
    /\ react.pc = "action"
    /\ react' = AfterAction([react EXCEPT !.observations = Append(@, TRUE)])

\* executeReActAction throws on `${action.type}`: the await rejects and the
\* catch block of reactAgent rethrows the classified error.
executeReActAction_throws ==
    /\ react.pc = "unprintable"
    /\ react' = [react EXCEPT !.pc = "rejected", !.cause = "action", !.failures = @ + 1]

\* The caller cancels the token.
cancel_react ==
    /\ react.pc \in {"round", "action", "unprintable"}
    /\ ~react.cancelled
    /\ react' = [react EXCEPT !.cancelled = TRUE]

NextReact ==
    /\ UNCHANGED <<registryVars, tasks, out, managerVars, calls, retryVars, streamVars,
                   local, chat, monitor, discovery, conv, batch, vstore, stores, advanced, importing>>
    /\ \/ reactAgent
       \/ round_resolves
       \/ round_rejects
       \/ executeReActAction
       \/ executeReActAction_throws
       \/ cancel_react

SpecReact == InitRegistry /\ [][NextReact]_vars

\* C24: a reactAgent call makes at most 10 provider request rounds, and none
\* after the first response that carries a final answer.
C24_AtMostTenRounds ==
    /\ react.rounds <= 10
    /\ react.finalRound > 0 => react.rounds = react.finalRound

\* C24 witness: the call has resolved after 10 rounds without a final answer.
C24_Witness ==
    /\ react.pc = "resolved"
    /\ react.rounds = 10
    /\ react.finalRound = 0

\* C25: every action execution that failed is recorded as a failed
\* observation, and reactAgent does not reject because of it.
C25_ActionFailureIsObservation ==
    /\ react.failures = Cardinality({i \in DOMAIN react.observations : ~react.observations[i]})
    /\ react.pc = "rejected" => react.cause # "action"

(***************************************************************************)
(* AdvancedAIServiceManager._getStoreForCategory over VectorDatabaseService *)
(***************************************************************************)
MaxStores == 3          \* stores ever created
MaxLookups == 2         \* _getStoreForCategory calls in flight at once

\* A store: its id, config.categories, and the category its name includes
\* (0: none).
Store(id, categories, named) == [id |-> id, categories |-> categories, named |-> named]

\* stores.find(store => store.categories.includes(category) ||
\*                      store.name.includes(category))
Covers(store, category) == category \in store.categories \/ store.named = category
FindStore(list, category) ==
    LET hits == {i \in DOMAIN list : Covers(list[i], category)}
    IN IF hits = {} THEN 0 ELSE list[CHOOSE i \in hits : \A j \in hits : i <= j].id

\* createVectorStore from _getStoreForCategory: categories are all the
\* categories, the name is `${category} Store`.
NewStoreFor(id, category) == Store(id, Categories, category)

\* _initializeContextStores / createStore: a store for one category.
createStore ==
    /\ stores.nextId <= MaxStores
    /\ \E c \in Categories :
          stores' = [stores EXCEPT !.list = Append(@, Store(stores.nextId, {c}, c)),
                                   !.nextId = @ + 1]

deleteStore ==
    \E i \in DOMAIN stores.list :
        stores' = [stores EXCEPT !.list = MapDelete(@, stores.list[i].id)]

\* _getStoreForCategory up to `await this._vectorDatabase.listStores()`.
getStoreForCategory ==
    /\ Len(stores.lookups) < MaxLookups
    /\ \E c \in Categories :
          stores' = [stores EXCEPT
              !.lookups = Append(@, [category |-> c, pc |-> "listing",
                                     prior |-> stores.assigned[c], priorAlive |-> FALSE,
                                     id |-> 0])]

\* The completed lookup is recorded.
Returned(s, k, id, created, covered) ==
    LET l == s.lookups[k]
    IN [s EXCEPT !.lookups = [j \in 1..(Len(@) - 1) |-> IF j < k THEN @[j] ELSE @[j + 1]],
                 !.assigned[l.category] = id,
                 !.last = <<[category |-> l.category, prior |-> l.prior,
                             priorAlive |-> l.priorAlive, result |-> id,
                             created |-> created, covered |-> covered]>>]

\* listStores has returned: the store found is returned, or a store id is
\* generated and the instance awaited.
getStoreForCategory_listed ==
    \E k \in DOMAIN stores.lookups :
        LET l == stores.lookups[k]
            found == FindStore(stores.list, l.category)
            alive == MapHas(stores.list, l.prior)
        IN /\ l.pc = "listing"
           /\ IF found # 0
              THEN stores' = Returned([stores EXCEPT !.lookups[k].priorAlive = alive],
                                      k, found, FALSE, TRUE)
              ELSE /\ stores.nextId <= MaxStores
                   /\ stores' = [stores EXCEPT !.lookups[k].pc = "creating",
                                               !.lookups[k].priorAlive = alive,
                                               !.lookups[k].id = stores.nextId,
                                               !.nextId = @ + 1]

\* createStore resumes: the store is put into the maps and its id returned.
getStoreForCategory_created ==
    \E k \in DOMAIN stores.lookups :
        LET l == stores.lookups[k]
        IN /\ l.pc = "creating"
           /\ stores' = Returned([stores EXCEPT !.list = Append(@, NewStoreFor(l.id, l.category))],
                                 k, l.id, TRUE, FALSE)

NextStores ==
    /\ UNCHANGED <<registryVars, tasks, out, managerVars, calls, retryVars, streamVars,
                   local, chat, monitor, discovery, conv, batch, vstore, react, advanced, importing>>
    /\ \/ createStore
       \/ deleteStore
       \/ getStoreForCategory
       \/ getStoreForCategory_listed
       \/ getStoreForCategory_created

SpecStores == InitRegistry /\ [][NextStores]_vars

\* C28: a lookup returns a store of the database; it creates one exactly
\* when no store covered the category; and when an earlier lookup for the
\* category had returned a store that is still there, it returns that store.
C28_LookupCreatesOnce ==
    \A n \in DOMAIN stores.last :
        LET l == stores.last[n]
        IN /\ l.result # 0
           /\ l.created <=> ~l.covered
           /\ (l.prior # 0 /\ l.priorAlive) => (l.result = l.prior /\ ~l.created)

(***************************************************************************)
(* AdvancedAIServiceManager: processAdvancedQuery, processInterleavedContext *)
(* and indexContent, each await a step                                     *)
(***************************************************************************)
MaxSegments == 2        \* text segments of a context passed in

\* The five sub-pipelines of processAdvancedQuery.
Pipelines == {"chainOfThought", "sequentialThinking", "rag", "attention", "semanticSearch"}
Options == [useChainOfThought : BOOLEAN, useSequentialThinking : BOOLEAN, useRAG : BOOLEAN,
            ragCategories : BOOLEAN, useAttention : BOOLEAN, useSemanticSearch : BOOLEAN]
Enabled(options) ==
    {p \in Pipelines :
        \/ p = "chainOfThought" /\ options.useChainOfThought
        \/ p = "sequentialThinking" /\ options.useSequentialThinking
        \/ p = "rag" /\ options.useRAG /\ options.ragCategories
        \/ p = "attention" /\ options.useAttention
        \/ p = "semanticSearch" /\ options.useSemanticSearch}

Opt(flag, stage) == IF flag THEN <<stage>> ELSE <<>>
\* The awaits of processAdvancedQuery, in order.
AdvancedQueryStages(options) ==
    Opt(options.useChainOfThought, "chainOfThought")
    \o Opt(options.useSequentialThinking, "sequentialThinking")
    \o Opt(options.useRAG /\ options.ragCategories, "rag")
    \o Opt(options.useAttention, "attention")
    \o Opt(options.useSemanticSearch, "embedding")
    \o Opt(options.useSemanticSearch, "semanticSearch")
    \o <<"processQuery", "categorize">>

\* _createEmbedding: the provider's createEmbedding when there is a provider,
\* the pseudo-embedding otherwise. The mock provider's createEmbedding reads
\* this._configuration, which the provider object does not have: it throws.
createEmbedding(provider) == IF provider = "mock" THEN "throws" ELSE "pseudo"

Settle(a, outcome, cause) == [a EXCEPT !.outcome = outcome, !.cause = cause, !.pc = 0]
\* The stage at hand is over: the next one, or the response.
Proceed(a) ==
    IF a.pc < Len(a.stages) THEN [a EXCEPT !.pc = @ + 1] ELSE Settle(a, "resolved", "")
Stage(a) == IF a.pc \in DOMAIN a.stages THEN a.stages[a.pc] ELSE ""
Begin(a, op, stages, segments, enabled) ==
    Proceed([a EXCEPT !.op = op, !.stages = stages, !.pc = 0, !.segments = segments,
                      !.enabled = enabled, !.ran = {}, !.carried = {},
                      !.outcome = "", !.cause = ""])

\* initialize(): the stores are created and the mock provider becomes active.
initialize ==
    /\ advanced.provider = "none"
    /\ advanced.pc = 0
    /\ advanced' = [advanced EXCEPT !.provider = "mock"]

\* processAdvancedQuery; without a context _buildInterleavedContext makes one
\* of a single text segment.
processAdvancedQuery ==
    /\ advanced.pc = 0
    /\ \E options \in Options, context \in BOOLEAN, segments \in 0..MaxSegments :
          /\ ~context => segments = 1
          /\ advanced' = Begin(advanced, "processAdvancedQuery", AdvancedQueryStages(options),
                               segments, Enabled(options))

processInterleavedContext ==
    /\ advanced.pc = 0
    /\ \E segments \in 0..MaxSegments :
          advanced' =
              IF advanced.provider = "none"
              THEN Settle(Begin(advanced, "processInterleavedContext", <<>>, segments, {}),
                          "rejected", "provider")
              ELSE Begin(advanced, "processInterleavedContext",
                         <<"attention", "categorize", "contextualRAG", "processQuery">>,
                         segments, {})

indexContent ==
    /\ advanced.pc = 0
    /\ advanced' = Begin(advanced, "indexContent", <<"embedding", "addDocuments">>, 0, {})

\* chainOfThoughtReasoning, sequentialProblemSolving, ragQuery and
\* analyzeAttention: throw without a provider, else the provider's result,
\* which the response carries.
subPipeline ==
    /\ Stage(advanced) \in {"chainOfThought", "sequentialThinking", "rag", "attention"}
    /\ advanced' =
          IF advanced.provider = "none" THEN Settle(advanced, "rejected", "provider")
          ELSE Proceed([advanced EXCEPT !.ran = @ \cup {Stage(advanced)},
                                        !.carried = @ \cup {Stage(advanced)}])

\* await this._createEmbedding(...) of the semantic search or of indexContent.
embedding ==
    /\ Stage(advanced) = "embedding"
    /\ advanced' = IF createEmbedding(advanced.provider) = "throws"
                   THEN Settle(advanced, "rejected", "embedding")
                   ELSE Proceed(advanced)

\* await this.semanticSearch(searchQuery, token): the result is assigned to
\* semanticResults, which the response does not take up.
semanticSearch ==
    /\ Stage(advanced) = "semanticSearch"
    /\ advanced' = Proceed([advanced EXCEPT !.ran = @ \cup {"semanticSearch"}])

\* if (!this._activeProvider) throw; await this._activeProvider.processQuery(...)
processQuery ==
    /\ Stage(advanced) = "processQuery"
    /\ advanced' = IF advanced.provider = "none" THEN Settle(advanced, "rejected", "provider")
                   ELSE Proceed(advanced)

\* _categorizeContextSegments: for a text segment, categorizeContext then
\* _createEmbedding; code segments bring their own embedding.
categorizeContextSegments ==
    /\ Stage(advanced) = "categorize"
    /\ advanced' =
          IF advanced.segments = 0 THEN Proceed(advanced)
          ELSE IF advanced.provider = "none" THEN Settle(advanced, "rejected", "provider")
          ELSE IF createEmbedding(advanced.provider) = "throws"
          THEN Settle(advanced, "rejected", "embedding")
          ELSE [advanced EXCEPT !.segments = @ - 1]

\* _performContextualRAG (failures of a ragQuery are caught), and the store
\* lookup and addDocuments of indexContent.
otherAwait ==
    /\ Stage(advanced) \in {"contextualRAG", "addDocuments"}
    /\ advanced' = Proceed(advanced)

NextAdvanced ==
    /\ UNCHANGED <<registryVars, tasks, out, managerVars, calls, retryVars, streamVars,
                   local, chat, monitor, discovery, conv, batch, vstore, react, stores, importing>>
    /\ \/ initialize
       \/ processAdvancedQuery
       \/ processInterleavedContext
       \/ indexContent
       \/ subPipeline
       \/ embedding
       \/ semanticSearch
       \/ processQuery
       \/ categorizeContextSegments
       \/ otherAwait

SpecAdvanced == InitRegistry /\ [][NextAdvanced]_vars

\* C26: a processAdvancedQuery call settles by resolving, with a response
\* that carries the result of each enabled sub-pipeline, and has run the
\* enabled sub-pipelines and no other.
C26_EveryToggleSubset ==
    (advanced.op = "processAdvancedQuery" /\ advanced.provider = "mock" /\ advanced.outcome # "") =>
        /\ advanced.outcome = "resolved"
        /\ advanced.ran = advanced.enabled
        /\ advanced.carried = advanced.enabled

\* C27: no call of processAdvancedQuery, processInterleavedContext or
\* indexContent rejects because an embedding could not be made.
C27_EmbeddingNeverFails ==
    advanced.outcome = "rejected" => advanced.cause # "embedding"

(***************************************************************************)
(* addConfiguration with an API key: every call carries a key, its         *)
(* required fields and its endpoint URL are valid and the endpoint answers *)
(* the probe with 2xx                                                      *)
(***************************************************************************)
\* The key texts a caller enters: a plaintext key, or the key id an earlier
\* encryptApiKey call returned.
EnteredKeys == {RawKey, KeyRef}

addConfiguration_withKey(t) ==
    /\ Free(t)
    /\ calls' = calls + 1
    /\ \E id \in ModelIds, isDefault \in BOOLEAN, apiKey \in EnteredKeys :
          tasks' = [tasks EXCEPT ![t] =
              Validating("addConfiguration", Config(id, isDefault, apiKey), Undefined,
                         validateConfiguration("ok", apiKey, secrets, TRUE))]
    /\ out' = <<>>
    /\ UNCHANGED <<registryVars, managerVars>>

NextAddKey ==
    /\ UNCHANGED <<retryVars, streamVars, auxVars>>
    /\ \/ \E t \in Tasks : addConfiguration_withKey(t)
       \/ \E t \in Tasks : addConfiguration_validated(t)
       \/ \E t \in Tasks : addConfiguration_keyStored(t)
       \/ \E t \in Tasks : addConfiguration_saved(t)
       \/ \E t \in Tasks : setDefaultModel_saved(t)
       \/ encryptApiKey

SpecAddKey == InitRegistry /\ [][NextAddKey]_vars

\* C30: an addConfiguration call whose configuration carries an API key and
\* whose required fields, endpoint URL and endpoint probe are valid succeeds:
\* it is never rejected, and when it has resolved the secret store holds an
\* entry under the configuration's id and the registry holds the configuration
\* without the key.
C30_AddWithKeySucceeds ==
    \A i \in 1..Len(out) :
        out[i].name = "addConfiguration" =>
            /\ out[i].kind # "reject"
            /\ out[i].kind = "resolve" =>
                  /\ out[i].id \in secrets
                  /\ MapHas(configurations, out[i].id)
                  /\ MapGet(configurations, out[i].id).apiKey = Undefined

(***************************************************************************)
(* importConfigurations / exportConfigurations and the API keys            *)
(***************************************************************************)
MaxImport == 2                    \* configurations in one import
MaxKeyCalls == 2                  \* registry calls made in one behaviour with imports
Encrypted == "[ENCRYPTED]"        \* the placeholder exportConfigurations writes

\* exportConfigurations: configs.map(config => ({...config, apiKey:
\* config.apiKey ? '[ENCRYPTED]' : undefined})), and the default model id.
exportConfigurations(cfgs, defaultModel) ==
    [configurations |->
        [i \in 1..Len(cfgs) |->
            [cfgs[i] EXCEPT !.apiKey = IF Truthy(cfgs[i].apiKey) THEN Encrypted ELSE Undefined]],
     defaultModel |-> defaultModel]

\* importing.before is what the registry held when the call was made, the
\* number of registry calls made up to it, and whether none was in flight.

\* The configurations of an import: written by a user, or an export edited by
\* one. The default of an import is named by its defaultModel entry.
ImportedConfigs ==
    {Config(id, FALSE, apiKey) : id \in ModelIds, apiKey \in {Undefined, Encrypted} \cup EnteredKeys}
ImportedLists == UNION {[1..n -> ImportedConfigs] : n \in 0..MaxImport}

\* One turn of the loop of importConfigurations up to its await:
\* if (config.apiKey === '[ENCRYPTED]') config.apiKey = undefined;
\* await this.addConfiguration(config)
\* The call runs in slot t; `others` are the calls in the other slots.
ImportAdd(t, queue, defaultModel, others, before) ==
    LET config == IF queue[1].apiKey = Encrypted THEN [queue[1] EXCEPT !.apiKey = Undefined]
                  ELSE queue[1]
    IN \E fields \in Fields, probeOk \in BOOLEAN :
          /\ tasks' = [others EXCEPT ![t] =
                 Validating("addConfiguration", config, Undefined,
                            validateConfiguration(fields, config.apiKey, secrets, probeOk))]
          /\ importing' = [pc |-> "awaitAdd", slot |-> t, queue |-> Tail(queue),
                           defaultModel |-> defaultModel, before |-> before]
          /\ out' = <<>>

\* importConfigurations(data) up to its first await. Data that does not parse,
\* or has no configurations array, is rejected before the Map is cleared.
importConfigurations(t) ==
    /\ importing.pc = "idle"
    /\ Free(t)
    /\ calls' = calls + 1
    /\ \/ /\ out' = <<Reject("importConfigurations", Undefined, "CONFIGURATION_ERROR")>>
          /\ UNCHANGED <<configurations, tasks, importing>>
       \/ \E list \in ImportedLists :
          \E defaultModel \in {Undefined} \cup {list[i].id : i \in 1..Len(list)} :
            \* this.configurations.clear(): no call holds an object of the Map any more
            /\ configurations' = <<>>
            /\ IF list = <<>>
               THEN \* the Map is empty: no default is set
                    /\ out' = <<Resolve("importConfigurations", Undefined)>>
                    /\ tasks' = [u \in Tasks |-> [tasks[u] EXCEPT !.alias = FALSE]]
                    /\ UNCHANGED importing
               ELSE ImportAdd(t, list, defaultModel,
                              [u \in Tasks |-> [tasks[u] EXCEPT !.alias = FALSE]],
                              <<[configurations |-> configurations,
                                 defaultModelId |-> defaultModelId,
                                 calls |-> calls + 1, quiet |-> \A u \in Tasks : tasks[u] = Idle]>>)
    /\ UNCHANGED <<defaultModelId, storedConfigurations, storedDefaultModel, secrets, managerVars>>

\* The promise importConfigurations awaits settles with the call in its slot.
AddSettled(t) ==
    importing' =
        IF importing.pc = "awaitAdd" /\ importing.slot = t /\ tasks'[t] = Idle
        THEN [importing EXCEPT !.pc =
                 IF \E i \in 1..Len(out') : out'[i].kind = "reject"
                 THEN "addRejected" ELSE "addResolved"]
        ELSE importing

\* importConfigurations after the addConfiguration it awaited has settled: the
\* catch wraps a rejection; otherwise the loop goes on, and after the last
\* configuration the default of the import is set when the Map has it.
importConfigurations_added(t) ==
    /\ UNCHANGED calls
    /\ importing.pc \in {"addRejected", "addResolved"}
    /\ tasks[t] = Idle
    /\ \A u \in Tasks : u < t => tasks[u] # Idle
    /\ IF importing.pc = "addRejected"
       THEN /\ out' = <<Reject("importConfigurations", Undefined, "CONFIGURATION_ERROR")>>
            /\ importing' = [pc |-> "idle", slot |-> 0, queue |-> <<>>, defaultModel |-> Undefined,
                             before |-> <<>>]
            /\ UNCHANGED <<registryVars, tasks>>
       ELSE IF importing.queue # <<>>
       THEN /\ ImportAdd(t, importing.queue, importing.defaultModel, tasks, importing.before)
            /\ UNCHANGED registryVars
       ELSE /\ importing' = [pc |-> "idle", slot |-> 0, queue |-> <<>>, defaultModel |-> Undefined,
                             before |-> <<>>]
            /\ IF Truthy(importing.defaultModel) /\ MapHas(configurations, importing.defaultModel)
               THEN SetDefaultStart(t, "importConfigurations", importing.defaultModel, <<>>)
               ELSE /\ out' = <<Resolve("importConfigurations", Undefined)>>
                    /\ UNCHANGED <<registryVars, tasks>>
    /\ UNCHANGED managerVars

NextKeys ==
    /\ UNCHANGED <<retryVars, streamVars, local, chat, monitor, discovery, conv,
                   batch, vstore, react, stores, advanced>>
    /\ \/ \E t \in Tasks : calls < MaxKeyCalls /\ addConfiguration(t) /\ AddSettled(t)
       \/ \E t \in Tasks : addConfiguration_validated(t) /\ AddSettled(t)
       \/ \E t \in Tasks : addConfiguration_keyStored(t) /\ AddSettled(t)
       \/ \E t \in Tasks : addConfiguration_saved(t) /\ AddSettled(t)
       \/ \E t \in Tasks : calls < MaxKeyCalls /\ updateConfiguration(t) /\ AddSettled(t)
       \/ \E t \in Tasks : updateConfiguration_validated(t) /\ AddSettled(t)
       \/ \E t \in Tasks : updateConfiguration_keyStored(t) /\ AddSettled(t)
       \/ \E t \in Tasks : updateConfiguration_saved(t) /\ AddSettled(t)
       \/ \E t \in Tasks : calls < MaxKeyCalls /\ removeConfiguration(t) /\ AddSettled(t)
       \/ \E t \in Tasks : removeConfiguration_keyRemoved(t) /\ AddSettled(t)
       \/ \E t \in Tasks : removeConfiguration_saved(t) /\ AddSettled(t)
       \/ \E t \in Tasks : setDefaultModel_saved(t) /\ AddSettled(t)
       \/ \E t \in Tasks : calls < MaxKeyCalls /\ importConfigurations(t)
       \/ \E t \in Tasks : importConfigurations_added(t)
       \/ encryptApiKey /\ UNCHANGED importing

SpecKeys == InitRegistry /\ [][NextKeys]_vars

\* The API key a stored or exported configuration may show: none, or the placeholder.
NoKey(cfgs) == \A i \in 1..Len(cfgs) : cfgs[i].apiKey \in {Undefined, EmptyString, Encrypted}

\* C29: after any sequence of addConfiguration, updateConfiguration,
\* removeConfiguration and importConfigurations calls, no configuration in the
\* registry map, in the persisted configuration array or in the output of
\* exportConfigurations carries an API key.
C29_NoPlaintextKey ==
    /\ \A i \in 1..Len(configurations) : ~Truthy(configurations[i].apiKey)
    /\ \A i \in 1..Len(storedConfigurations) : ~Truthy(storedConfigurations[i].apiKey)
    /\ NoKey(exportConfigurations(configurations, defaultModelId).configurations)

\* An import has resolved whose configuration carried a key: the key is in the
\* secret store under the configuration's id, the configuration in the Map and
\* in the persisted array.
C29_Witness ==
    /\ \E i \in 1..Len(out) : out[i] = Resolve("importConfigurations", Undefined)
    /\ \E id \in ModelIds :
          /\ id \in secrets
          /\ MapHas(configurations, id)
          /\ MapHas(storedConfigurations, id)

(***************************************************************************)
(* The default pointer, the isDefault flags and the active model           *)
(***************************************************************************)
\* No registry call is in flight.
RegistryQuiet == \A t \in Tasks : tasks[t] = Idle

\* C32: whenever no registry operation is in progress, a configuration of the
\* registry has isDefault = true if and only if it is the configuration
\* getDefaultModel() returns.
C32_DefaultFlagsAgree ==
    RegistryQuiet =>
        \A i \in 1..Len(configurations) :
            configurations[i].isDefault <=>
                (Truthy(defaultModelId) /\ configurations[i].id = defaultModelId)

\* C33: when importConfigurations rejects, the registry holds the same
\* configurations and the same default as before the call (no other registry
\* call was in flight when it was made, and none was made since).
C33_RejectedImportChangesNothing ==
    [][/\ \* rejected at once: the data does not parse or has the wrong shape
          (importing.pc = "idle" /\ importing'.pc = "idle" /\ calls' = calls + 1
           /\ out' = <<Reject("importConfigurations", Undefined, "CONFIGURATION_ERROR")>>)
            => UNCHANGED <<configurations, defaultModelId>>
       /\ \* rejected after an imported configuration failed validation
          (importing.pc = "addRejected" /\ importing'.pc = "idle"
           /\ importing.before[1].quiet /\ importing.before[1].calls = calls)
            => /\ configurations' = importing.before[1].configurations
               /\ defaultModelId' = importing.before[1].defaultModelId]_vars

\* The manager over a registry driven by addConfiguration and
\* removeConfiguration: its constructor listens to onDidChangeDefaultModel
\* (setDefaultModel_saved), providers are registered as they come.
NextActive ==
    /\ UNCHANGED <<retryVars, streamVars, auxVars>>
    /\ \/ registerProvider
       \/ \E t \in Tasks : addConfiguration(t)
       \/ \E t \in Tasks : addConfiguration_validated(t)
       \/ \E t \in Tasks : addConfiguration_saved(t)
       \/ \E t \in Tasks : removeConfiguration(t)
       \/ \E t \in Tasks : removeConfiguration_keyRemoved(t)
       \/ \E t \in Tasks : removeConfiguration_saved(t)
       \/ \E t \in Tasks : setDefaultModel_saved(t)

SpecActive == InitRegistry /\ [][NextActive]_vars

\* C37: whenever activeModelId is set and no operation is in progress, it
\* names a configuration that exists in the registry, so that a request is not
\* resolved against a removed id.
C37_ActiveModelExists ==
    (RegistryQuiet /\ Truthy(activeModelId)) => MapHas(configurations, activeModelId)

(***************************************************************************)
(* LocalModelConfigContribution: the local registry follows the            *)
(* configuration registry                                                  *)
(***************************************************************************)
\* handleModelAdded (onDidAddModel): a local configuration is registered;
\* registerModel throws for an id the registry has, which the handler logs.
\* Every configuration here is enabled.
handleModelAdded(m, id) ==
    IF ~IsLocal(id) \/ id \in m.models THEN m
    ELSE LET stored == [m EXCEPT !.models = @ \cup {id}, !.instances[id] = "live"]
             started == startMonitoring(stored, id)
         IN [started EXCEPT !.registering = @ \cup {id}, !.trace = <<>>, !.notice = <<>>]

\* handleModelRemoved (onDidRemoveModel): unregisterModel(modelId).
handleModelRemoved(m, id) ==
    IF id \notin m.models THEN m
    ELSE [unregisterModelStates(m, id)[3] EXCEPT !.trace = <<>>, !.notice = <<>>]

NextSync ==
    /\ UNCHANGED <<retryVars, streamVars, local, chat, discovery, conv,
                   batch, vstore, react, stores, advanced>>
    /\ \/ \E t \in Tasks : /\ calls < MaxKeyCalls
                           /\ addConfiguration(t) /\ AddSettled(t) /\ UNCHANGED monitor
       \/ \E t \in Tasks : addConfiguration_validated(t) /\ AddSettled(t) /\ UNCHANGED monitor
       \/ \E t \in Tasks : /\ addConfiguration_saved(t) /\ AddSettled(t)
                           /\ monitor' = handleModelAdded(monitor, tasks[t].cfg.id)
       \/ \E t \in Tasks : /\ calls < MaxKeyCalls
                           /\ removeConfiguration(t) /\ AddSettled(t) /\ UNCHANGED monitor
       \/ \E t \in Tasks : removeConfiguration_keyRemoved(t) /\ AddSettled(t) /\ UNCHANGED monitor
       \/ \E t \in Tasks : /\ removeConfiguration_saved(t) /\ AddSettled(t)
                           /\ monitor' = handleModelRemoved(monitor, tasks[t].cfg.id)
       \/ \E t \in Tasks : setDefaultModel_saved(t) /\ AddSettled(t) /\ UNCHANGED monitor
       \/ \E t \in Tasks : /\ calls < MaxKeyCalls
                           /\ importConfigurations(t) /\ UNCHANGED monitor
       \/ \E t \in Tasks : importConfigurations_added(t) /\ UNCHANGED monitor
       \/ /\ registerModel_checked
          /\ UNCHANGED <<registryVars, managerVars, tasks, calls, out, importing>>

SpecSync == InitRegistry /\ [][NextSync]_vars

\* C34: whenever no registry call is in flight and every change-event handler
\* has finished, the ids registered in the local model registry are the ids of
\* the enabled local-type configurations of the configuration registry.
C34_LocalRegistryFollowsConfigurations ==
    (RegistryQuiet /\ importing.pc = "idle" /\ monitor.registering = {}) =>
        monitor.models = LocalConfigIds(configurations)

====
